---- MODULE Spec2Model ----
(***************************************************************************)
(* Model of the daily schedule engine of the personal to-do application:   *)
(* the TimeRange codec (utils/time-range), the routine catalog, the        *)
(* Schedule Reconciler, the cascade of updateTask, the routine migration   *)
(* (ensureDefaultRoutines) and the schedule comparator (hooks/useTasks).   *)
(*                                                                         *)
(* A string is modelled as a sequence of characters, each character being  *)
(* a one-element token ("a", ":", " ", ...).  A text that the code splits  *)
(* on '\n' is modelled by the sequence of its lines, so the empty string   *)
(* is the text with one empty line.  Minutes are integers.                 *)
(***************************************************************************)
EXTENDS Integers, Sequences, FiniteSets, TLC

VARIABLES
    cText,      \* codec: the description text the codec operations work on
    cContent,   \* codec: the text the last injectTimeMetadata was applied to
    cRange,     \* codec: the range the last injectTimeMetadata wrote into cText
    cParsed,    \* codec: the result of parseTimeRange(cText), once computed
    cNormalized,\* codec: normalizeRange(cRange) as injectTimeMetadata computed it
    cPhase      \* codec: "given", "injected", "stripped" (after an injection)

codecVars == <<cText, cContent, cRange, cParsed, cNormalized, cPhase>>

VARIABLES
    rPrefs,     \* reconciler: the meal preferences of the user
    rSelected,  \* reconciler: the selected day
    rTasks,     \* reconciler: state.tasks, the list handed to the Reconciler
    rPhase,     \* reconciler: "input", "once" (reconciled), "twice"
    rOut,       \* reconciler: adjustForSelectedDate(rTasks)
    rTurns,     \* reconciler: what each routine met at its turn of the seed loop
    rOut2       \* reconciler: adjustForSelectedDate(rOut)

reconVars == <<rPrefs, rSelected, rTasks, rPhase, rOut, rTurns, rOut2>>

VARIABLES
    kStore,     \* cascade: the rows of the task store
    kTasks,     \* cascade: state.tasks
    kEdits,     \* cascade: the number of edits the user has made
    kSource,    \* cascade: the task as the last edit left it
    kPlan,      \* cascade: what the cascade of the last edit worked out
    kPending,   \* cascade: the sibling updates still to be written
    kWrites,    \* cascade: the sibling windows written by the cascade so far
    kOutcome    \* cascade: the last call of createTask, updateTask or deleteTask

cascadeVars == <<kStore, kTasks, kEdits, kSource, kPlan, kPending, kWrites, kOutcome>>

VARIABLES
    mStore,      \* migration: the rows of the task store
    mFlag,       \* migration: the stored routine version
    mLegacyFlag, \* migration: whether the flag of the first version is stored
    mPrefs,      \* migration: the meal preferences
    mPasses,     \* migration: the number of passes made
    mPass        \* migration: the last pass, its input and its outcome

migrateVars == <<mStore, mFlag, mLegacyFlag, mPrefs, mPasses, mPass>>

VARIABLES
    sList,      \* sort: the list given to the comparator and to sortTasks
    sPhase,     \* sort: "input", "compared", "sorted"
    sVerdict,   \* sort: comparator(sList[1], sList[2])
    sSorted     \* sort: sortTasks(sList)

sortVars == <<sList, sPhase, sVerdict, sSorted>>

VARIABLES
    gPrefs,     \* catalog: mealPreferences, the state of useTasks
    gSeeds      \* catalog: routineSeeds, the memo over the preferences

catalogVars == <<gPrefs, gSeeds>>

VARIABLES
    fStore,     \* refresh: the rows of the task store
    fFlags,     \* refresh: the stored routine version and the legacy flag
    fSeeding,   \* refresh: seedingRef.current
    fState,     \* refresh: state of useTasks (loading, error, tasks)
    fSummary,   \* refresh: the count given to scheduleDailySummary, -1 before
    fRun,       \* refresh: each call of refresh in flight, and where it stands
    fSelected   \* refresh: selectedDate, the state of useTasks

refreshVars == <<fStore, fFlags, fSeeding, fState, fSummary, fRun, fSelected>>

VARIABLES
    nMap,       \* reminders: the reminder map in AsyncStorage, task id to notification id
    nLive,      \* reminders: the notifications scheduled and not cancelled
    nIssued,    \* reminders: the number of notifications scheduled so far
    nCalls,     \* reminders: the number of calls of the service begun
    nCall       \* reminders: each call in flight, where it stands, its copy of the map

reminderVars == <<nMap, nLive, nIssued, nCalls, nCall>>

VARIABLES
    qStore,     \* completion: the rows of the task store
    qReminders, \* completion: the reminder map and the scheduled notifications
    qOps        \* completion: the number of calls of the hook made

silentVars == <<qStore, qReminders, qOps>>

vars == <<codecVars, reconVars, cascadeVars, migrateVars, sortVars, catalogVars,
          refreshVars, reminderVars, silentVars>>

\* the element of a set of one element: { F(v) : v \in {e} } works F out on
\* the value of e, computed once
Only(set) == CHOOSE x \in set : TRUE

\* null for a string (a text always has at least one line)
NullText == <<>>

\* null for a TimeRange, and "no result yet" (a range always has end > start)
NullRange == [startMinutes |-> -1, endMinutes |-> -1]

UnsetRange == [startMinutes |-> -2, endMinutes |-> -2]

\* String.prototype.match found nothing
NoMatch == <<>>

\* ------------------------------------------------------------------------
\* Characters and strings
\* ------------------------------------------------------------------------
DigitChars == <<"0", "1", "2", "3", "4", "5", "6", "7", "8", "9">>

IsDigit(c) == \E i \in 1..10 : DigitChars[i] = c

DigitValue(c) == (CHOOSE i \in 1..10 : DigitChars[i] = c) - 1

toLowerChar(c) ==
    CASE c = "A" -> "a" [] c = "E" -> "e" [] c = "I" -> "i"
      [] c = "M" -> "m" [] c = "P" -> "p" [] c = "T" -> "t"
      [] OTHER -> c

toLowerCase(s) == [i \in 1..Len(s) |-> toLowerChar(s[i])]

IsWhitespace(c) == c \in {" ", "\t"}

RECURSIVE trimStart(_)
trimStart(s) ==
    IF s # <<>> /\ IsWhitespace(Head(s)) THEN trimStart(Tail(s)) ELSE s

RECURSIVE trimEnd(_)
trimEnd(s) ==
    IF s # <<>> /\ IsWhitespace(s[Len(s)])
    THEN trimEnd(SubSeq(s, 1, Len(s) - 1))
    ELSE s

trim(s) == trimEnd(trimStart(s))

startsWith(s, prefix) ==
    Len(s) >= Len(prefix) /\ SubSeq(s, 1, Len(prefix)) = prefix

\* Number("08") = 8 on a string of decimal digits
RECURSIVE Number(_)
Number(s) ==
    IF s = <<>> THEN 0
    ELSE 10 * Number(SubSeq(s, 1, Len(s) - 1)) + DigitValue(s[Len(s)])

\* n.toString() for n >= 0
RECURSIVE toString(_)
toString(n) ==
    IF n < 10 THEN <<DigitChars[n + 1]>>
    ELSE toString(n \div 10) \o <<DigitChars[(n % 10) + 1]>>

padStart2(s) == IF Len(s) < 2 THEN <<"0">> \o s ELSE s

\* the empty string, as the list of its lines
EmptyString == << <<>> >>

\* lines.join('\n'), as the list of lines of the joined string
join(lines) == IF lines = <<>> THEN EmptyString ELSE lines

\* ------------------------------------------------------------------------
\* utils/time-range
\* ------------------------------------------------------------------------
TIME_META_PREFIX == <<"@", "t", "i", "m", "e">>

TIME_COLON_PREFIX == <<"t", "i", "m", "e", ":">>

MINUTES_IN_DAY == 24 * 60

Range(s, e) == [startMinutes |-> s, endMinutes |-> e]

\* /^@time\s+(\d{1,2}):(\d{2})-(\d{1,2}):(\d{2})$/i : the four captured
\* groups of the body that follows "@time" and its whitespace, or NoMatch
TimeFields(body) ==
    LET shapes == { ab \in (1..2) \X (1..2) :
                      LET a == ab[1]
                          b == ab[2]
                      IN  /\ Len(body) = a + b + 7
                          /\ \A i \in 1..a : IsDigit(body[i])
                          /\ body[a + 1] = ":"
                          /\ IsDigit(body[a + 2])
                          /\ IsDigit(body[a + 3])
                          /\ body[a + 4] = "-"
                          /\ \A i \in 1..b : IsDigit(body[a + 4 + i])
                          /\ body[a + b + 5] = ":"
                          /\ IsDigit(body[a + b + 6])
                          /\ IsDigit(body[a + b + 7]) }
    IN  IF shapes = {} THEN NoMatch
        ELSE LET ab == CHOOSE x \in shapes : TRUE
                 a == ab[1]
                 b == ab[2]
             IN  << SubSeq(body, 1, a),
                    SubSeq(body, a + 2, a + 3),
                    SubSeq(body, a + 5, a + 4 + b),
                    SubSeq(body, a + b + 6, a + b + 7) >>

TIME_LINE_REGEX(line) ==
    IF ~startsWith(toLowerCase(line), TIME_META_PREFIX) THEN NoMatch
    ELSE LET rest == SubSeq(line, Len(TIME_META_PREFIX) + 1, Len(line))
             body == trimStart(rest)
         IN  IF Len(body) = Len(rest) THEN NoMatch ELSE TimeFields(body)

isTimeMetadataLine(line) ==
    LET lower == toLowerCase(trim(line))
    IN  startsWith(lower, TIME_META_PREFIX) \/ startsWith(lower, TIME_COLON_PREFIX)

\* while (end <= start) end += MINUTES_IN_DAY
RECURSIVE AddDaysUntilAfter(_, _)
AddDaysUntilAfter(end, start) ==
    IF end <= start THEN AddDaysUntilAfter(end + MINUTES_IN_DAY, start) ELSE end

normalizeRange(range) ==
    Range(range.startMinutes, AddDaysUntilAfter(range.endMinutes, range.startMinutes))

minutesToTimeKey(minutes) ==
    LET normalized == ((minutes % MINUTES_IN_DAY) + MINUTES_IN_DAY) % MINUTES_IN_DAY
        hours == padStart2(toString(normalized \div 60))
        mins == padStart2(toString(normalized % 60))
    IN  hours \o <<":">> \o mins

RECURSIVE ParseLines(_, _)
ParseLines(lines, i) ==
    IF i > Len(lines) THEN NullRange
    ELSE Only({ IF ~startsWith(toLowerCase(line), TIME_META_PREFIX)
                THEN ParseLines(lines, i + 1)
                ELSE Only({ IF match = NoMatch THEN ParseLines(lines, i + 1)
                            ELSE Only({ Range(startMinutes,
                                              AddDaysUntilAfter(endMinutes, startMinutes)) :
                                          startMinutes \in { Number(match[1]) * 60
                                                               + Number(match[2]) },
                                          endMinutes \in { Number(match[3]) * 60
                                                             + Number(match[4]) } }) :
                              match \in { TIME_LINE_REGEX(line) } }) :
                  line \in { trim(lines[i]) } })

parseTimeRange(description) ==
    IF description = NullText \/ description = EmptyString THEN NullRange
    ELSE ParseLines(description, 1)

TrimAll(lines) == [i \in 1..Len(lines) |-> trim(lines[i])]

KeepLine(line) == Len(line) > 0 /\ ~isTimeMetadataLine(line)

stripTimeMetadata(description) ==
    IF description = NullText \/ description = EmptyString THEN EmptyString
    ELSE join(SelectSeq(TrimAll(description), KeepLine))

\* formatTime of utils/dates on the time of day of `minutes` (minutesToDate
\* keeps only the minute of the day), in the en-US 12-hour form "8:05 AM"
formatTime(minutes) ==
    LET minuteWithinDay == ((minutes % MINUTES_IN_DAY) + MINUTES_IN_DAY) % MINUTES_IN_DAY
        hour == minuteWithinDay \div 60
        hour12 == IF hour % 12 = 0 THEN 12 ELSE hour % 12
        suffix == IF hour < 12 THEN <<"A", "M">> ELSE <<"P", "M">>
    IN  toString(hour12) \o <<":">> \o padStart2(toString(minuteWithinDay % 60))
          \o <<" ">> \o suffix

timeRangeToFriendly(range) ==
    LET normalized == normalizeRange(range)
    IN  formatTime(normalized.startMinutes) \o <<" ", "ndash", " ">>
          \o formatTime(normalized.endMinutes)

\* the mutant keeps the marker lines already in the text
injectTimeMetadata_KeepMarkers(content, range) ==
    LET baseLines == SelectSeq(TrimAll(IF content = NullText THEN EmptyString ELSE content),
                               LAMBDA line : Len(line) > 0)
        normalized == normalizeRange(range)
        metaLine == TIME_META_PREFIX \o <<" ">> \o minutesToTimeKey(normalized.startMinutes)
                      \o <<"-">> \o minutesToTimeKey(normalized.endMinutes)
        friendlyLine == <<"T", "i", "m", "e", ":", " ">> \o timeRangeToFriendly(normalized)
    IN  join(baseLines \o <<metaLine, friendlyLine>>)

injectTimeMetadata(content, range) ==
    LET baseLines == SelectSeq(TrimAll(IF content = NullText THEN EmptyString ELSE content),
                               KeepLine)
        normalized == normalizeRange(range)
        metaLine == TIME_META_PREFIX \o <<" ">> \o minutesToTimeKey(normalized.startMinutes)
                      \o <<"-">> \o minutesToTimeKey(normalized.endMinutes)
        friendlyLine == <<"T", "i", "m", "e", ":", " ">> \o timeRangeToFriendly(normalized)
    IN  join(baseLines \o <<metaLine, friendlyLine>>)

rangesOverlap(a, b) ==
    LET rangeA == normalizeRange(a)
        rangeB == normalizeRange(b)
    IN  rangeA.startMinutes < rangeB.endMinutes /\ rangeB.startMinutes < rangeA.endMinutes

Max(a, b) == IF a >= b THEN a ELSE b

Min(a, b) == IF a <= b THEN a ELSE b

clampRangeToBounds(range, bounds) ==
    LET normalizedRange == normalizeRange(range)
        normalizedBounds == normalizeRange(bounds)
        start == Max(normalizedRange.startMinutes, normalizedBounds.startMinutes)
        end == Min(normalizedRange.endMinutes, normalizedBounds.endMinutes)
    IN  IF end <= start THEN NullRange ELSE Range(start, end)

rangeDuration(range) ==
    LET normalized == normalizeRange(range)
    IN  normalized.endMinutes - normalized.startMinutes

\* ------------------------------------------------------------------------
\* hooks/useTasks: the routine catalog
\* ------------------------------------------------------------------------
WAKE_START == 4 * 60

WAKE_END == 5 * 60

SLEEP_START == 22 * 60

MIN_MEAL_DURATION == 60

EARLIEST_BREAKFAST == WAKE_END

LATEST_BREAKFAST == 11 * 60

LATEST_LUNCH == 17 * 60

LATEST_DINNER == SLEEP_START - MIN_MEAL_DURATION

MIN_ROUTINE_MINUTES == 2

\* titles are modelled in the lower case the code compares them in
ROUTINE_TITLES ==
    [ wake |-> "wake up and personal duties",
      workEarly |-> "schedule any work (early)",
      breakfast |-> "breakfast",
      workLateMorning |-> "schedule any work (late morning)",
      lunch |-> "lunch",
      workAfternoon |-> "schedule any work (afternoon)",
      dinner |-> "dinner",
      workEvening |-> "schedule any work (evening)",
      sleep |-> "sleep" ]

FLEXIBLE_ROUTINE_TITLES ==
    { ROUTINE_TITLES.workEarly, ROUTINE_TITLES.workLateMorning,
      ROUTINE_TITLES.workAfternoon, ROUTINE_TITLES.workEvening }

FOOD_ROUTINE_TITLES ==
    { ROUTINE_TITLES.breakfast, ROUTINE_TITLES.lunch, ROUTINE_TITLES.dinner }

ANCHOR_ROUTINE_TITLES == FOOD_ROUTINE_TITLES \cup { ROUTINE_TITLES.sleep }

PREVIOUS_ROUTINE_TITLES ==
    { "sleep", "early morning rest", "breakfast", "midday rest", "lunch",
      "afternoon rest", "evening wind-down", "late evening rest" }

DEFAULT_MEAL_PREFERENCES ==
    [ breakfastStart |-> 8 * 60, lunchStart |-> 14 * 60, dinnerStart |-> 20 * 60 ]

clamp(value, min, max) == Min(Max(value, min), max)

normalizeMealPreferences(prefs) ==
    LET breakfast == clamp(prefs.breakfastStart, EARLIEST_BREAKFAST, LATEST_BREAKFAST)
        lunch == clamp(prefs.lunchStart, breakfast + MIN_MEAL_DURATION, LATEST_LUNCH)
        dinner == clamp(prefs.dinnerStart, lunch + MIN_MEAL_DURATION, LATEST_DINNER)
    IN  [ breakfastStart |-> breakfast, lunchStart |-> lunch, dinnerStart |-> dinner ]

minutesToHourMinute(minutes) ==
    LET normalized == ((minutes % MINUTES_IN_DAY) + MINUTES_IN_DAY) % MINUTES_IN_DAY
    IN  [ hour |-> normalized \div 60, minute |-> normalized % 60 ]

\* a seed without a reminder
NoReminder == [ hour |-> -1, minute |-> -1 ]

\* one DefaultRoutineSeed; a summary is a single line of one word
Seed(title, summary, start, end, reminder, isFlexible) ==
    [ title |-> title,
      summary |-> << <<summary>> >>,
      startHour |-> minutesToHourMinute(start).hour,
      startMinute |-> minutesToHourMinute(start).minute,
      endHour |-> minutesToHourMinute(end).hour,
      endMinute |-> minutesToHourMinute(end).minute,
      reminder |-> reminder,
      isFlexible |-> isFlexible ]

buildRoutineSeeds(prefs) ==
    LET normalized == normalizeMealPreferences(prefs)
        breakfastStart == normalized.breakfastStart
        breakfastEnd == breakfastStart + MIN_MEAL_DURATION
        lunchStart == Max(normalized.lunchStart, breakfastEnd + MIN_MEAL_DURATION)
        lunchEnd == lunchStart + MIN_MEAL_DURATION
        dinnerStart == Max(normalized.dinnerStart, lunchEnd + MIN_MEAL_DURATION)
        dinnerEnd == dinnerStart + MIN_MEAL_DURATION
        earlyWork == <<WAKE_END, breakfastStart>>
        lateMorningWork == <<breakfastEnd, lunchStart>>
        afternoonWork == <<lunchEnd, dinnerStart>>
        eveningWorkStart == Min(dinnerEnd, SLEEP_START)
        eveningWork == <<eveningWorkStart, SLEEP_START>>
    IN  << Seed(ROUTINE_TITLES.wake, "Ease into the day with stretching or reflection.",
                WAKE_START, WAKE_END, NoReminder, FALSE),
           Seed(ROUTINE_TITLES.workEarly, "Tackle deep work before breakfast.",
                earlyWork[1], earlyWork[2], NoReminder, TRUE),
           Seed(ROUTINE_TITLES.breakfast, "Fuel up for the morning ahead.",
                breakfastStart, breakfastEnd, minutesToHourMinute(breakfastStart), FALSE),
           Seed(ROUTINE_TITLES.workLateMorning, "Meetings, planning, and momentum building.",
                lateMorningWork[1], lateMorningWork[2], NoReminder, TRUE),
           Seed(ROUTINE_TITLES.lunch, "Pause, refuel, and reset for the afternoon.",
                lunchStart, lunchEnd, minutesToHourMinute(lunchStart), FALSE),
           Seed(ROUTINE_TITLES.workAfternoon, "Focus on execution and collaborative work.",
                afternoonWork[1], afternoonWork[2], NoReminder, TRUE),
           Seed(ROUTINE_TITLES.dinner, "Close the day with a nourishing meal.",
                dinnerStart, dinnerEnd, minutesToHourMinute(dinnerStart), FALSE),
           Seed(ROUTINE_TITLES.workEvening, "Tie up loose ends or pursue a side project.",
                eveningWork[1], eveningWork[2], NoReminder, TRUE),
           Seed(ROUTINE_TITLES.sleep, "Rest well to prepare for tomorrow.",
                SLEEP_START, WAKE_START, minutesToHourMinute(SLEEP_START), FALSE) >>

seedToRange(seed) ==
    normalizeRange(Range(seed.startHour * 60 + seed.startMinute,
                         seed.endHour * 60 + seed.endMinute))

buildRoutineDescription(seed) == injectTimeMetadata(seed.summary, seedToRange(seed))

\* useTasks: routineSeeds, routineOrder, routineRangeMap, allowedRoutineTitles
routineSeeds(prefs) == buildRoutineSeeds(normalizeMealPreferences(prefs))

allowedRoutineTitles(seeds) == { seeds[i].title : i \in 1..Len(seeds) }

\* Map.get(title): the index of the seed with that title, from 0; -1 is undefined
routineOrder(seeds, title) ==
    IF \E i \in 1..Len(seeds) : seeds[i].title = title
    THEN (CHOOSE i \in 1..Len(seeds) : seeds[i].title = title) - 1
    ELSE -1

routineRangeMap(seeds, title) ==
    IF \E i \in 1..Len(seeds) : seeds[i].title = title
    THEN seedToRange(seeds[CHOOSE i \in 1..Len(seeds) : seeds[i].title = title])
    ELSE NullRange

\* ------------------------------------------------------------------------
\* hooks/useTasks: tasks, comparator
\* ------------------------------------------------------------------------
\* null for due_at (otherwise the number of a calendar day)
NullDate == 0

\* null for reminder_at (otherwise the minute of the day it fires at)
NullTime == -1

Task(id, title, description, due_at, reminder_at, is_completed, created_at) ==
    [ id |-> id, title |-> title, description |-> description, due_at |-> due_at,
      reminder_at |-> reminder_at, is_completed |-> is_completed,
      created_at |-> created_at ]

\* Map.get / Array.find found nothing
NullTask == Task(0, "", NullText, NullDate, NullTime, FALSE, 0)

isRoutineTask(task) == task.due_at = NullDate

\* getRangeForDate and isTaskWithinRange: the range of a day is the day
isTaskWithinRange(task, day) ==
    IF task.due_at = NullDate THEN TRUE ELSE task.due_at = day

\* Number.POSITIVE_INFINITY and Number.MAX_SAFE_INTEGER, at the integer width
\* of the checker: above every minute and every ordinal
POSITIVE_INFINITY == 2147483647

MAX_SAFE_INTEGER == 2147483647

\* keyA, keyB of the comparator: range ? normalizeRange(range).startMinutes
\* : Number.POSITIVE_INFINITY
SortKey(task) ==
    Only({ IF range # NullRange THEN normalizeRange(range).startMinutes
           ELSE POSITIVE_INFINITY :
             range \in { parseTimeRange(task.description) } })

\* valueA, valueB of the comparator: orderA ?? Number.MAX_SAFE_INTEGER
OrdinalValue(order) == IF order # -1 THEN order ELSE MAX_SAFE_INTEGER

\* the mutant forgets the catalog ordinal
compareTasks_NoOrdinal(seeds, a, b) ==
    IF a.is_completed # b.is_completed
    THEN (IF a.is_completed THEN 1 ELSE -1)
    ELSE
    Only({ IF keyA # keyB THEN keyA - keyB
           ELSE b.created_at - a.created_at :
             keyA \in { SortKey(a) }, keyB \in { SortKey(b) } })

\* compareTasksFactory(routineOrder)(a, b)
compareTasks(seeds, a, b) ==
    IF a.is_completed # b.is_completed
    THEN (IF a.is_completed THEN 1 ELSE -1)
    ELSE
    Only({ IF keyA # keyB THEN keyA - keyB
           ELSE IF /\ a.due_at = NullDate /\ b.due_at = NullDate
                   /\ (orderA # -1 \/ orderB # -1)
                   /\ OrdinalValue(orderA) # OrdinalValue(orderB)
                THEN OrdinalValue(orderA) - OrdinalValue(orderB)
                ELSE b.created_at - a.created_at :
             keyA \in { SortKey(a) }, keyB \in { SortKey(b) },
             orderA \in { routineOrder(seeds, a.title) },
             orderB \in { routineOrder(seeds, b.title) } })

\* Array.prototype.sort with the comparator, as a stable insertion sort:
\* task goes behind the last of the first n entries that does not sort after it
RECURSIVE InsertTask(_, _, _, _)
InsertTask(sorted, task, n, seeds) ==
    IF n = 0 \/ compareTasks(seeds, sorted[n], task) <= 0
    THEN SubSeq(sorted, 1, n) \o <<task>> \o SubSeq(sorted, n + 1, Len(sorted))
    ELSE InsertTask(sorted, task, n - 1, seeds)

\* the first n entries of the list, sorted
RECURSIVE SortFirst(_, _, _)
SortFirst(tasks, n, seeds) ==
    IF n = 0 THEN <<>>
    ELSE Only({ InsertTask(sorted, tasks[n], Len(sorted), seeds) :
                  sorted \in {SortFirst(tasks, n - 1, seeds)} })

sortTasks(tasks, seeds) ==
    Only({ SortFirst(list, Len(list), order) : list \in {tasks}, order \in {seeds} })

sanitizeDescription(description) == stripTimeMetadata(description)

withTimeRange(task, range) ==
    [task EXCEPT !.description =
        injectTimeMetadata(sanitizeDescription(task.description), range)]

toBlockingRange(range) == normalizeRange(range)

\* ------------------------------------------------------------------------
\* hooks/useTasks: the Schedule Reconciler
\* ------------------------------------------------------------------------
RECURSIVE MergeFrom(_, _, _)
MergeFrom(sorted, i, merged) ==
    IF i > Len(sorted) THEN merged
    ELSE LET current == merged[Len(merged)]
             next == sorted[i]
         IN  Only({ MergeFrom(sorted, i + 1, grown) :
                      grown \in { IF current.endMinutes >= next.startMinutes
                                  THEN [merged EXCEPT ![Len(merged)].endMinutes =
                                           Max(current.endMinutes, next.endMinutes)]
                                  ELSE Append(merged, next) } })

\* segments.sort((a, b) => a.startMinutes - b.startMinutes), stable
RECURSIVE InsertByStart(_, _, _)
InsertByStart(sorted, segment, n) ==
    IF n = 0 \/ sorted[n].startMinutes - segment.startMinutes <= 0
    THEN SubSeq(sorted, 1, n) \o <<segment>> \o SubSeq(sorted, n + 1, Len(sorted))
    ELSE InsertByStart(sorted, segment, n - 1)

RECURSIVE SortByStart(_, _)
SortByStart(segments, n) ==
    IF n = 0 THEN <<>>
    ELSE Only({ InsertByStart(sorted, segments[n], Len(sorted)) :
                  sorted \in {SortByStart(segments, n - 1)} })

mergeOverlaps(segments) ==
    IF Len(segments) = 0 THEN <<>>
    ELSE Only({ MergeFrom(sorted, 2, <<sorted[1]>>) :
                  sorted \in { Only({ SortByStart(normalized, Len(normalized)) :
                                  normalized \in { [i \in 1..Len(segments) |->
                                                      normalizeRange(segments[i])] } }) } })

Better(candidate, best) ==
    IF best = NullRange \/ rangeDuration(candidate) > rangeDuration(best)
    THEN candidate ELSE best

\* the for loop of findLargestGap: <<cursor, best>> after the blocks from i on
RECURSIVE GapScan(_, _, _, _)
GapScan(blocks, i, cursor, best) ==
    IF i > Len(blocks) THEN <<cursor, best>>
    ELSE LET block == blocks[i]
         IN  Only({ GapScan(blocks, i + 1, nextCursor, nextBest) :
                      nextCursor \in { Max(cursor, block.endMinutes) },
                      nextBest \in { IF block.startMinutes > cursor
                                     THEN Better(Range(cursor, block.startMinutes), best)
                                     ELSE best } })

IsRange(block) == block # NullRange

findLargestGap(bounds, blockers) ==
    LET normalizedBounds == normalizeRange(bounds)
        clamped == [i \in 1..Len(blockers) |->
                        clampRangeToBounds(blockers[i], normalizedBounds)]
    IN  Only({ IF scanned[1] < normalizedBounds.endMinutes
               THEN Better(Range(scanned[1], normalizedBounds.endMinutes), scanned[2])
               ELSE scanned[2] :
                 scanned \in { Only({ GapScan(relevantBlocks, 1,
                                              normalizedBounds.startMinutes, NullRange) :
                                  relevantBlocks \in
                                      { mergeOverlaps(SelectSeq(clamped, IsRange)) } }) } })

adjustFlexibleRange(seedRange, blockers) == findLargestGap(seedRange, blockers)

RECURSIVE MaxOf(_)
MaxOf(numbers) ==
    IF Len(numbers) = 1 THEN numbers[1]
    ELSE Max(numbers[1], MaxOf(Tail(numbers)))

adjustFoodRange(seedRange, blockers) ==
    LET normalizedSeed == normalizeRange(seedRange)
        duration == rangeDuration(normalizedSeed)
        overlapping == SelectSeq(blockers, LAMBDA block : rangesOverlap(block, normalizedSeed))
    IN  IF Len(overlapping) = 0 THEN normalizedSeed
        ELSE LET latestEnd == MaxOf([i \in 1..Len(overlapping) |->
                                        normalizeRange(overlapping[i]).endMinutes])
                 shifted == Max(normalizedSeed.startMinutes, latestEnd)
                 start == IF shifted + duration > MINUTES_IN_DAY
                          THEN MINUTES_IN_DAY - duration
                          ELSE shifted
             IN  Range(start, start + duration)

\* routineByTitle.get(key): the last routine of the list with that title
routineByTitle(tasks, key) ==
    LET matching == { i \in 1..Len(tasks) :
                        tasks[i].due_at = NullDate /\ tasks[i].title = key }
    IN  IF matching = {} THEN NullTask
        ELSE tasks[CHOOSE i \in matching : \A j \in matching : j <= i]

\* a placement that fits a persisted window to the day as it does a seed
PlaceRoutine_AdjustPersisted(key, existingRange, seedRange, blocking) ==
    LET baseRange == IF existingRange # NullRange THEN normalizeRange(existingRange)
                     ELSE seedRange
    IN  IF key \in FOOD_ROUTINE_TITLES THEN adjustFoodRange(baseRange, blocking)
        ELSE IF key \in FLEXIBLE_ROUTINE_TITLES THEN adjustFlexibleRange(baseRange, blocking)
        ELSE baseRange

\* the window one routine gets at its turn of the seed loop; NullRange
\* when the routine is removed from the day
PlaceRoutine(key, existingRange, seedRange, blocking) ==
    IF existingRange # NullRange THEN normalizeRange(existingRange)
    ELSE IF key \in FOOD_ROUTINE_TITLES THEN adjustFoodRange(seedRange, blocking)
    ELSE IF key \in FLEXIBLE_ROUTINE_TITLES THEN adjustFlexibleRange(seedRange, blocking)
    ELSE seedRange

\* one turn of the seed loop of applyScheduleAdjustments: what the routine
\* met and the window it got
Turn(routineTask, key, seeds, blocking) ==
    Only({ [ id |-> routineTask.id, key |-> key,
             seedRange |-> seedRange,
             existingRange |-> existingRange,
             blocking |-> blocking,
             range |-> PlaceRoutine(key, existingRange, seedRange, blocking) ] :
             seedRange \in { routineRangeMap(seeds, key) },
             existingRange \in { parseTimeRange(routineTask.description) } })

\* a turn that records the window and leaves the blocking list as it was
AfterTurn_LeaveBlocking(st, routineTask, turn) ==
    IF turn.range = NullRange
    THEN [st EXCEPT !.removed = @ \cup {routineTask.id},
                    !.turns = Append(@, turn)]
    ELSE [st EXCEPT !.updates = Append(@, withTimeRange(routineTask, turn.range)),
                    !.turns = Append(@, turn)]

\* the locals of applyScheduleAdjustments after a turn
AfterTurn(st, routineTask, turn) ==
    IF turn.range = NullRange
    THEN [st EXCEPT !.removed = @ \cup {routineTask.id},
                    !.turns = Append(@, turn)]
    ELSE [ blocking |-> Append(st.blocking, toBlockingRange(turn.range)),
           updates |-> Append(st.updates, withTimeRange(routineTask, turn.range)),
           removed |-> st.removed,
           turns |-> Append(st.turns, turn) ]

\* the seed loop of applyScheduleAdjustments from seed i on; st holds the
\* locals blocking, updates, removed, and turns, the record of each turn
RECURSIVE SeedLoop(_, _, _, _)
SeedLoop(tasks, seeds, i, st) ==
    IF i > Len(seeds) THEN st
    ELSE Only({ IF routineTask = NullTask THEN SeedLoop(tasks, seeds, i + 1, st)
                ELSE Only({ SeedLoop(tasks, seeds, i + 1, next) :
                              next \in { Only({ AfterTurn(st, routineTask, turn) :
                                            turn \in { Turn(routineTask, seeds[i].title,
                                                            seeds, st.blocking) } }) } }) :
                  routineTask \in { routineByTitle(tasks, seeds[i].title) } })

\* the blocking list applyScheduleAdjustments starts from
InitialBlocking(tasks, selectedDate) ==
    LET dated == SelectSeq(tasks, LAMBDA task :
                     task.due_at # NullDate /\ isTaskWithinRange(task, selectedDate))
        parsed == [i \in 1..Len(dated) |-> parseTimeRange(dated[i].description)]
        ranges == SelectSeq(parsed, IsRange)
    IN  [i \in 1..Len(ranges) |-> normalizeRange(ranges[i])]

ScheduleAdjustments(tasks, selectedDate, seeds) ==
    Only({ SeedLoop(list, catalog, 1, st) :
             list \in {tasks}, catalog \in {seeds},
             st \in { [ blocking |-> InitialBlocking(tasks, selectedDate),
                        updates |-> <<>>, removed |-> {}, turns |-> <<>> ] } })

\* the order in which the two-phase procedure takes the seeds: the routines
\* that are not flexible in catalog order, then the flexible ones in catalog
\* order
TwoPhaseOrder(seeds) ==
    SelectSeq(seeds, LAMBDA seed : seed.title \notin FLEXIBLE_ROUTINE_TITLES)
        \o SelectSeq(seeds, LAMBDA seed : seed.title \in FLEXIBLE_ROUTINE_TITLES)

\* the locals of the two-phase procedure after its two loops, each routine
\* placed as the seed loop of applyScheduleAdjustments places it
TwoPhaseAdjustments(tasks, selectedDate, seeds) ==
    Only({ SeedLoop(list, order, 1, st) :
             list \in {tasks}, order \in { TwoPhaseOrder(seeds) },
             st \in { [ blocking |-> InitialBlocking(tasks, selectedDate),
                        updates |-> <<>>, removed |-> {}, turns |-> <<>> ] } })

\* updates.get(task.id) ?? task
UpdatedTask(updates, task) ==
    IF \E i \in 1..Len(updates) : updates[i].id = task.id
    THEN updates[CHOOSE i \in 1..Len(updates) : updates[i].id = task.id]
    ELSE task

\* a returned list that keeps only the dated tasks that have a window
AdjustedList_TimedOnly(tasks, seeds, st) ==
    Only({ [i \in 1..Len(kept) |->
               IF kept[i].due_at = NullDate THEN UpdatedTask(st.updates, kept[i])
               ELSE kept[i]] :
             kept \in { SelectSeq(tasks, LAMBDA task :
                            \/ /\ task.due_at # NullDate
                               /\ parseTimeRange(task.description) # NullRange
                            \/ /\ task.due_at = NullDate
                               /\ task.title \in allowedRoutineTitles(seeds)
                               /\ task.id \notin st.removed) } })

\* the list applyScheduleAdjustments returns, from the locals of the seed loop
AdjustedList(tasks, seeds, st) ==
    Only({ [i \in 1..Len(kept) |->
               IF kept[i].due_at = NullDate THEN UpdatedTask(st.updates, kept[i])
               ELSE kept[i]] :
             kept \in { SelectSeq(tasks, LAMBDA task :
                            \/ task.due_at # NullDate
                            \/ /\ task.title \in allowedRoutineTitles(seeds)
                               /\ task.id \notin st.removed) } })

applyScheduleAdjustments(tasks, selectedDate, seeds) ==
    Only({ AdjustedList(list, catalog, st) :
             list \in {tasks}, catalog \in {seeds},
             st \in { ScheduleAdjustments(tasks, selectedDate, seeds) } })

adjustForSelectedDate(tasks, selectedDate, seeds) ==
    sortTasks(applyScheduleAdjustments(tasks, selectedDate, seeds), seeds)

\* ------------------------------------------------------------------------
\* hooks/useTasks: updateTask and its cascade
\* ------------------------------------------------------------------------
getRoutineRange(task, seeds) ==
    Only({ IF parsed # NullRange THEN normalizeRange(parsed)
           ELSE IF fallback # NullRange THEN normalizeRange(fallback)
           ELSE normalizeRange(Range(0, MINUTES_IN_DAY)) :
             parsed \in { parseTimeRange(task.description) },
             fallback \in { routineRangeMap(seeds, task.title) } })

\* findIndex, from 1; 0 when nothing is found
findIndex(tasks, id) ==
    IF \E i \in 1..Len(tasks) : tasks[i].id = id
    THEN CHOOSE i \in 1..Len(tasks) :
            tasks[i].id = id /\ \A j \in 1..(i - 1) : tasks[j].id # id
    ELSE 0

RemoveAt(list, index) ==
    SubSeq(list, 1, index - 1) \o SubSeq(list, index + 1, Len(list))

\* the list applyTaskUpdate leaves in state.tasks and returns; the updater
\* given to setState is taken to run when setState is called
applyTaskUpdate(tasks, task, day, seeds) ==
    Only({ sortTasks(IF isTaskWithinRange(task, day)
                     THEN (IF index = 0 THEN Append(tasks, task)
                           ELSE [tasks EXCEPT ![index] = task])
                     ELSE IF index # 0 THEN RemoveAt(tasks, index)
                     ELSE tasks,
                     seeds) :
             index \in { findIndex(tasks, task.id) } })

OrderOrMax(seeds, task) ==
    IF routineOrder(seeds, task.title) # -1 THEN routineOrder(seeds, task.title)
    ELSE MAX_SAFE_INTEGER

\* routines.sort((a, b) => orderA - orderB), stable
RECURSIVE InsertByOrder(_, _, _, _)
InsertByOrder(sorted, task, n, seeds) ==
    IF n = 0 \/ OrderOrMax(seeds, sorted[n]) - OrderOrMax(seeds, task) <= 0
    THEN SubSeq(sorted, 1, n) \o <<task>> \o SubSeq(sorted, n + 1, Len(sorted))
    ELSE InsertByOrder(sorted, task, n - 1, seeds)

RECURSIVE SortByOrder(_, _, _)
SortByOrder(tasks, n, seeds) ==
    IF n = 0 THEN <<>>
    ELSE Only({ InsertByOrder(sorted, tasks[n], Len(sorted), seeds) :
                  sorted \in {SortByOrder(tasks, n - 1, seeds)} })

CascadeRoutines(updatedList, seeds) ==
    Only({ SortByOrder(routines, Len(routines), seeds) :
             routines \in { SelectSeq(updatedList, LAMBDA item : item.due_at = NullDate) } })

\* the search for the boundary runs from the end of the list
BoundaryIndex_Last(routines, sourceIndex) ==
    LET anchors == { i \in (sourceIndex + 1)..Len(routines) :
                        routines[i].title \in ANCHOR_ROUTINE_TITLES }
    IN  IF anchors = {} THEN 0
        ELSE CHOOSE i \in anchors : \A j \in anchors : j <= i

\* the first anchor routine after sourceIndex, 0 when there is none
BoundaryIndex(routines, sourceIndex) ==
    LET anchors == { i \in (sourceIndex + 1)..Len(routines) :
                        routines[i].title \in ANCHOR_ROUTINE_TITLES }
    IN  IF anchors = {} THEN 0
        ELSE CHOOSE i \in anchors : \A j \in anchors : i <= j

\* the minutes one target gets, given what is left before the boundary
Allocate(originalDuration, availableNow, remaining) ==
    LET minRequiredForRest == MIN_ROUTINE_MINUTES * remaining
        maxForCurrent == Min(IF remaining > 0
                             THEN Max(MIN_ROUTINE_MINUTES, availableNow - minRequiredForRest)
                             ELSE availableNow,
                             availableNow)
        allocated == Min(originalDuration, maxForCurrent)
        minAllowable == Min(MIN_ROUTINE_MINUTES, availableNow)
    IN  IF allocated < minAllowable THEN minAllowable ELSE allocated

\* the window one target gets in the allocation loop
AllocatedRange(normalizedTarget, cursor, boundaryStart, remaining) ==
    Only({ Range(cursor, IF cursor + allocated > boundaryStart THEN boundaryStart
                         ELSE cursor + allocated) :
             allocated \in { Allocate(Max(MIN_ROUTINE_MINUTES,
                                          normalizedTarget.endMinutes
                                             - normalizedTarget.startMinutes),
                                      boundaryStart - cursor, remaining) } })

\* the allocation loop over the targets from idx on (idx counts from 1)
RECURSIVE AllocationLoop(_, _, _, _, _, _)
AllocationLoop(targets, idx, cursor, boundaryStart, adjustments, seeds) ==
    IF idx > Len(targets) THEN adjustments
    ELSE IF boundaryStart - cursor <= 0 THEN adjustments
    ELSE Only({ AllocationLoop(targets, idx + 1, range.endMinutes, boundaryStart,
                               Append(adjustments, [task |-> targets[idx], range |-> range]),
                               seeds) :
                  range \in { AllocatedRange(getRoutineRange(targets[idx], seeds), cursor,
                                             boundaryStart, Len(targets) - idx) } })

\* the last adjustment stays as the allocation loop left it
PinLast_Never(adjustments, boundaryStart) == adjustments

\* the last adjustment is pinned to the boundary
PinLast(adjustments, boundaryStart) ==
    Only({ IF Len(list) > 0 /\ list[Len(list)].range.endMinutes < boundaryStart
           THEN [list EXCEPT ![Len(list)].range.endMinutes = boundaryStart]
           ELSE list :
             list \in {adjustments} })

\* what the cascade of handleUpdateTask works out for the edited routine:
\* the targets, the boundary and the adjustments
NoCascade == [ targets |-> <<>>, boundaryStart |-> -1, cursor |-> -1, adjustments |-> <<>> ]

\* the adjustments for the targets between the edited routine and the boundary
PlanFor(routines, sourceIndex, boundaryIndex, task, seeds) ==
    Only({ IF Len(targets) = 0 THEN [NoCascade EXCEPT !.boundaryStart = boundaryStart]
           ELSE [ targets |-> targets,
                  boundaryStart |-> boundaryStart,
                  cursor |-> cursor,
                  adjustments |->
                      PinLast(AllocationLoop(targets, 1, cursor, boundaryStart, <<>>, seeds),
                              boundaryStart) ] :
             boundaryStart \in { getRoutineRange(routines[boundaryIndex], seeds).startMinutes },
             targets \in { SubSeq(routines, sourceIndex + 1, boundaryIndex - 1) },
             cursor \in { Min(getRoutineRange(task, seeds).endMinutes,
                              getRoutineRange(routines[boundaryIndex], seeds).startMinutes) } })

CascadePlan(updatedList, task, seeds) ==
    Only({ Only({ IF sourceIndex = 0 THEN NoCascade
                  ELSE Only({ IF boundaryIndex = 0 THEN NoCascade
                              ELSE PlanFor(routines, sourceIndex, boundaryIndex, task, seeds) :
                                boundaryIndex \in { BoundaryIndex(routines, sourceIndex) } }) :
                    sourceIndex \in { findIndex(routines, task.id) } }) :
             routines \in { CascadeRoutines(updatedList, seeds) } })

\* the write-back loop skips an adjustment that changes nothing or is empty
NeedsWrite(adjustment, seeds) ==
    LET currentRange == getRoutineRange(adjustment.task, seeds)
    IN  /\ ~(/\ currentRange.startMinutes = adjustment.range.startMinutes
             /\ currentRange.endMinutes = adjustment.range.endMinutes)
        /\ ~(adjustment.range.endMinutes <= adjustment.range.startMinutes)

\* the updatePayload the write-back builds for one adjustment, on the task
CascadeUpdate(adjustment, seeds) ==
    LET currentRange == getRoutineRange(adjustment.task, seeds)
        baseDescription == stripTimeMetadata(adjustment.task.description)
        normalizedRange == normalizeRange(adjustment.range)
        prevStartMinute == normalizeRange(currentRange).startMinutes % MINUTES_IN_DAY
        moved == /\ adjustment.task.reminder_at # NullTime
                 /\ prevStartMinute = adjustment.task.reminder_at
    IN  [ id |-> adjustment.task.id,
          range |-> adjustment.range,
          description |-> injectTimeMetadata(baseDescription, normalizedRange),
          reminder_at |-> IF moved THEN normalizedRange.startMinutes % MINUTES_IN_DAY
                          ELSE adjustment.task.reminder_at ]

\* the cascade ignores the option that switches it off
CascadeFor_Always(updatedList, task, skipCascade, seeds) ==
    IF task.due_at = NullDate THEN CascadePlan(updatedList, task, seeds) ELSE NoCascade

\* what a call of handleUpdateTask works out after applyTaskUpdate: the
\* cascade, unless the call switches it off or the task is dated
CascadeFor(updatedList, task, skipCascade, seeds) ==
    IF ~skipCascade /\ task.due_at = NullDate
    THEN CascadePlan(updatedList, task, seeds)
    ELSE NoCascade

\* the calls of handleUpdateTask the write-back loop of a cascade makes
PendingWrites(plan, seeds) ==
    Only({ [n \in 1..Len(needed) |-> CascadeUpdate(needed[n], seeds)] :
             needed \in { SelectSeq(plan.adjustments,
                              LAMBDA adjustment : NeedsWrite(adjustment, seeds)) } })

\* the list applyTaskDeletion leaves in state.tasks
applyTaskDeletion(tasks, taskId, seeds) ==
    sortTasks(SelectSeq(tasks, LAMBDA task : task.id # taskId), seeds)

\* how a call of createTask, updateTask or deleteTask ended: whether the
\* task store failed, whether the promise of the call was rejected, whether
\* Alert.alert was shown, and the store and state.tasks as the call found them
Outcome(op, id, failed, rejected, alerted, store, tasks) ==
    [ op |-> op, id |-> id, failed |-> failed, rejected |-> rejected,
      alerted |-> alerted, before |-> [ store |-> store, tasks |-> tasks ] ]

NoOutcome == Outcome("none", 0, FALSE, FALSE, FALSE, <<>>, <<>>)

\* ------------------------------------------------------------------------
\* hooks/useTasks: ensureDefaultRoutines
\* ------------------------------------------------------------------------
ROUTINE_VERSION == "4"

\* AsyncStorage.getItem gives null for a key that was never set
NullVersion == "null"

\* reminder_at of a seed as buildRoutineReminderDate gives it (the minute of
\* the day; the day itself is the sameDay input of isSameMinute)
buildRoutineReminderDate(seed) ==
    IF seed.reminder = NoReminder THEN NullTime
    ELSE seed.reminder.hour * 60 + seed.reminder.minute

\* isSameMinute(a, b); sameDay tells whether two reminders at the same
\* minute of the day also fall on the same day
isSameMinute(a, b, sameDay) ==
    IF a = NullTime /\ b = NullTime THEN TRUE
    ELSE IF a = NullTime \/ b = NullTime THEN FALSE
    ELSE a = b /\ sameDay

\* hasCustomRange of ensureDefaultRoutines
hasCustomRange(current, seed) ==
    LET currentRange == parseTimeRange(current.description)
        seedRange == parseTimeRange(buildRoutineDescription(seed))
    IN  /\ currentRange # NullRange
        /\ seedRange # NullRange
        /\ (currentRange.startMinutes # seedRange.startMinutes
            \/ currentRange.endMinutes # seedRange.endMinutes)

\* an earlier rule: the description follows the seed whenever the text
\* around the marker is the seed's summary
updatesDescription_BySummary(current, seed) ==
    /\ sanitizeDescription(current.description) =
          sanitizeDescription(buildRoutineDescription(seed))
    /\ current.description # buildRoutineDescription(seed)

\* whether ensureDefaultRoutines sets updates.description
updatesDescription(current, seed) ==
    /\ ~hasCustomRange(current, seed)
    /\ sanitizeDescription(current.description) =
          sanitizeDescription(buildRoutineDescription(seed))
    /\ parseTimeRange(current.description) = NullRange
    /\ current.description # buildRoutineDescription(seed)

\* whether ensureDefaultRoutines sets updates.reminder_at
updatesReminder(current, seed, sameDay) ==
    /\ ~hasCustomRange(current, seed)
    /\ IF seed.reminder # NoReminder
       THEN ~isSameMinute(current.reminder_at, buildRoutineReminderDate(seed), sameDay)
       ELSE current.reminder_at # NullTime

\* the routines of the list that the upgrade removes
IsLegacyRoutine(task, seeds) ==
    /\ task.due_at = NullDate
    /\ task.title \notin allowedRoutineTitles(seeds)
    /\ task.title \in PREVIOUS_ROUTINE_TITLES

\* the loop over the legacy routines; failing holds the titles whose API
\* call is rejected
RemoveLegacy(existing, seeds, failing) ==
    Only({ [ tasks |-> SelectSeq(existing, LAMBDA task :
                          ~(IsLegacyRoutine(task, seeds) /\ task.title \notin failing)),
             calls |-> [n \in 1..Len(gone) |-> [op |-> "delete", task |-> gone[n]]] ] :
             gone \in { SelectSeq(existing, LAMBDA task :
                            IsLegacyRoutine(task, seeds) /\ task.title \notin failing) } })

MaxId(tasks) ==
    IF tasks = <<>> THEN 0
    ELSE CHOOSE m \in { tasks[i].id : i \in 1..Len(tasks) } :
            \A i \in 1..Len(tasks) : tasks[i].id <= m

\* the locals after a missing routine has been created
AfterCreate(st, task) ==
    [ tasks |-> Append(st.tasks, task),
      calls |-> st.calls \o <<[op |-> "create", task |-> task]>>
                  \o (IF task.reminder_at # NullTime
                      THEN <<[op |-> "schedule", task |-> task]>> ELSE <<>>),
      changed |-> TRUE ]

\* the locals after an existing routine has been updated
AfterUpdate(st, updatedTask) ==
    [ tasks |-> [n \in 1..Len(st.tasks) |->
                    IF st.tasks[n].id = updatedTask.id THEN updatedTask ELSE st.tasks[n]],
      calls |-> st.calls \o <<[op |-> "update", task |-> updatedTask]>>
                  \o (IF updatedTask.reminder_at # NullTime
                      THEN <<[op |-> "schedule", task |-> updatedTask]>>
                      ELSE <<[op |-> "cancel", task |-> updatedTask]>>),
      changed |-> TRUE ]

\* what apiUpdateTask returns for the updates of a seed
UpdatedRoutine(current, seed, withDescription, withReminder) ==
    [current EXCEPT
        !.description = IF withDescription THEN buildRoutineDescription(seed) ELSE @,
        !.reminder_at = IF withReminder THEN buildRoutineReminderDate(seed) ELSE @]

\* one seed of the loop over routineSeeds; env = [failing, sameDay, now,
\* lastId]: the titles whose API call is rejected, the clock, and the last
\* id the backend has given out
EnsureSeed(st, current, seed, i, env) ==
    IF seed.title \in env.failing THEN st
    ELSE IF current = NullTask
    THEN AfterCreate(st, Task(env.lastId + i, seed.title, buildRoutineDescription(seed),
                              NullDate, buildRoutineReminderDate(seed), FALSE, env.now))
    ELSE Only({ IF ~(withDescription \/ withReminder) THEN st
                ELSE AfterUpdate(st, UpdatedRoutine(current, seed,
                                                    withDescription, withReminder)) :
                  withDescription \in { updatesDescription(current, seed) },
                  withReminder \in { updatesReminder(current, seed, env.sameDay) } })

\* the loop over routineSeeds gives up at the first seed whose call fails
RECURSIVE EnsureSeeds_StopAtFailure(_, _, _, _, _)
EnsureSeeds_StopAtFailure(existing, seeds, i, st, env) ==
    IF i > Len(seeds) \/ seeds[i].title \in env.failing THEN st
    ELSE Only({ EnsureSeeds_StopAtFailure(existing, seeds, i + 1, next, env) :
                  next \in { Only({ EnsureSeed(st, current, seeds[i], i, env) :
                                current \in { routineByTitle(existing, seeds[i].title) } }) } })

\* the loop over routineSeeds from seed i on; st = [tasks, calls, changed]
RECURSIVE EnsureSeeds(_, _, _, _, _)
EnsureSeeds(existing, seeds, i, st, env) ==
    IF i > Len(seeds) THEN st
    ELSE Only({ EnsureSeeds(existing, seeds, i + 1, next, env) :
                  next \in { Only({ EnsureSeed(st, current, seeds[i], i, env) :
                                current \in { routineByTitle(existing, seeds[i].title) } }) } })

\* one pass of ensureDefaultRoutines over the list the API returned
\* the pass once shouldUpgrade is known
EnsurePass(existing, seeds, flag, legacyFlag, env, shouldUpgrade) ==
    Only({ [ tasks |-> done.tasks,
             calls |-> done.calls,
             shouldUpgrade |-> shouldUpgrade,
             flag |-> IF shouldUpgrade \/ done.changed THEN ROUTINE_VERSION ELSE flag,
             legacyFlag |-> IF shouldUpgrade \/ done.changed THEN FALSE ELSE legacyFlag ] :
             done \in { Only({ EnsureSeeds(existing, seeds, 1,
                                   [ tasks |-> cleaned.tasks, calls |-> cleaned.calls,
                                     changed |-> FALSE ],
                                   env) :
                           cleaned \in { IF shouldUpgrade
                                         THEN RemoveLegacy(existing, seeds, env.failing)
                                         ELSE [tasks |-> existing, calls |-> <<>>] } }) } })

\* one pass of ensureDefaultRoutines over the list the API returned
ensureDefaultRoutines(existing, seeds, flag, legacyFlag, env) ==
    LET storedVersion == IF flag # NullVersion THEN flag
                         ELSE IF legacyFlag THEN "1" ELSE NullVersion
    IN  Only({ EnsurePass(list, catalog, flag, legacyFlag, env,
                          storedVersion # ROUTINE_VERSION) :
                 list \in {existing}, catalog \in {seeds} })

\* backend listTasks: the dated tasks of the day and every routine
listTasks(store, day) ==
    SelectSeq(store, LAMBDA task : task.due_at = NullDate \/ task.due_at = day)

\* the rows of the store after one API call
StoreCall(store, call) ==
    CASE call.op = "delete" -> SelectSeq(store, LAMBDA task : task.id # call.task.id)
      [] call.op = "create" -> Append(store, call.task)
      [] call.op = "update" ->
            [n \in 1..Len(store) |->
                IF store[n].id = call.task.id THEN call.task ELSE store[n]]
      [] OTHER -> store

\* the rows of the store after the API calls of a pass from call i on
RECURSIVE StoreAfter(_, _, _)
StoreAfter(store, calls, i) ==
    IF i > Len(calls) THEN store
    ELSE Only({ StoreAfter(next, calls, i + 1) : next \in { StoreCall(store, calls[i]) } })

countActiveTasks(tasks) ==
    Cardinality({ n \in 1..Len(tasks) : ~tasks[n].is_completed })

\* the row of the store with the id of the task, the task itself when the
\* store has no such row (apiUpdateTask rejects and the error is caught)
StoreRow(store, task) ==
    IF \E n \in 1..Len(store) : store[n].id = task.id
    THEN store[CHOOSE n \in 1..Len(store) : store[n].id = task.id]
    ELSE task

\* whether syncTaskReminders rolls the reminder of the task forward: the
\* task is a routine with a reminder, and the stored date is not the next
\* occurrence (stale)
RollsForward(task, stale) ==
    stale /\ task.due_at = NullDate /\ task.reminder_at # NullTime

\* syncTaskReminders(tasks): a reminder rolled forward is written with
\* apiUpdateTask, whose answer, the row of the store, takes the place of the
\* task; the minute of the day of the reminder stays
syncTaskReminders(tasks, store, stale) ==
    [n \in 1..Len(tasks) |->
        IF RollsForward(tasks[n], stale)
        THEN [StoreRow(store, tasks[n]) EXCEPT !.reminder_at = tasks[n].reminder_at]
        ELSE tasks[n]]

\* the rows of the store after syncTaskReminders
StoreAfterSync(store, tasks, stale) ==
    [n \in 1..Len(store) |->
        IF \E t \in 1..Len(tasks) :
              tasks[t].id = store[n].id /\ RollsForward(tasks[t], stale)
        THEN [store[n] EXCEPT !.reminder_at =
                 tasks[CHOOSE t \in 1..Len(tasks) : tasks[t].id = store[n].id].reminder_at]
        ELSE store[n]]

\* ------------------------------------------------------------------------
\* services/notifications: the reminder map and the scheduled notifications
\* ------------------------------------------------------------------------
\* reminderMap[taskId] is undefined
NoNotification == 0

\* the ids of the tasks the service is called for
ReminderIds == {1, 2}

\* readReminderMap() of an empty store, no notification scheduled
NoReminders ==
    [ map |-> [t \in ReminderIds |-> NoNotification], live |-> {}, issued |-> 0 ]

\* cancelTaskReminder(taskId), run from its first to its last line with no
\* other call in between
cancelTaskReminder(rem, taskId) ==
    IF rem.map[taskId] # NoNotification
    THEN [ map |-> [rem.map EXCEPT ![taskId] = NoNotification],
           live |-> { n \in rem.live : n.id # rem.map[taskId] },
           issued |-> rem.issued ]
    ELSE rem

\* scheduleTaskReminder(taskId, title, reminderDate), run from its first to
\* its last line with no other call in between; past: reminderDate is not
\* after Date.now()
scheduleTaskReminder(rem, taskId, past) ==
    IF past THEN rem
    ELSE Only({ [ map |-> [cancelled.map EXCEPT ![taskId] = cancelled.issued + 1],
                  live |-> cancelled.live
                             \cup { [id |-> cancelled.issued + 1, taskId |-> taskId] },
                  issued |-> cancelled.issued + 1 ] :
                  cancelled \in { cancelTaskReminder(rem, taskId) } })

\* createTask and updateTask after the API call: a reminder of a routine is
\* rolled forward by ensureRoutineReminderUpToDate and so is never past
RemindersAfterSave(rem, task, past) ==
    IF task.reminder_at # NullTime
    THEN scheduleTaskReminder(rem, task.id, past /\ task.due_at # NullDate)
    ELSE cancelTaskReminder(rem, task.id)

\* toggleComplete after the API call
RemindersAfterToggle(rem, task, past) ==
    IF task.reminder_at = NullTime THEN rem
    ELSE IF task.due_at # NullDate /\ task.is_completed
    THEN cancelTaskReminder(rem, task.id)
    ELSE scheduleTaskReminder(rem, task.id, past)

\* syncTaskReminders(tasks) from task i on, the calls for the tasks taken one
\* after the other
RECURSIVE RemindersAfterSync(_, _, _, _)
RemindersAfterSync(rem, tasks, i, past) ==
    IF i > Len(tasks) THEN rem
    ELSE Only({ RemindersAfterSync(next, tasks, i + 1, past) :
                  next \in { IF tasks[i].reminder_at = NullTime
                             THEN cancelTaskReminder(rem, tasks[i].id)
                             ELSE IF tasks[i].due_at # NullDate /\ tasks[i].is_completed
                             THEN cancelTaskReminder(rem, tasks[i].id)
                             ELSE scheduleTaskReminder(rem, tasks[i].id,
                                      past /\ tasks[i].due_at # NullDate) } })

\* ------------------------------------------------------------------------
\* Parts of the model that a specification leaves at rest
\* ------------------------------------------------------------------------
IdleCodec ==
    /\ cText = NullText
    /\ cContent = NullText
    /\ cRange = NullRange
    /\ cParsed = UnsetRange
    /\ cNormalized = NullRange
    /\ cPhase = "idle"

IdleRecon ==
    /\ rPrefs = DEFAULT_MEAL_PREFERENCES
    /\ rSelected = 0
    /\ rTasks = <<>>
    /\ rPhase = "idle"
    /\ rOut = <<>>
    /\ rTurns = <<>>
    /\ rOut2 = <<>>

IdleCascade ==
    /\ kStore = <<>>
    /\ kTasks = <<>>
    /\ kEdits = 0
    /\ kSource = NullTask
    /\ kPlan = NoCascade
    /\ kPending = <<>>
    /\ kWrites = <<>>
    /\ kOutcome = NoOutcome

IdleMigrate ==
    /\ mStore = <<>>
    /\ mFlag = "null"
    /\ mLegacyFlag = FALSE
    /\ mPrefs = DEFAULT_MEAL_PREFERENCES
    /\ mPasses = 0
    /\ mPass = [ prefs |-> DEFAULT_MEAL_PREFERENCES, existing |-> <<>>, tasks |-> <<>>,
                 calls |-> <<>>, shouldUpgrade |-> FALSE, failing |-> {} ]

IdleSort ==
    /\ sList = <<>>
    /\ sPhase = "idle"
    /\ sVerdict = 0
    /\ sSorted = <<>>

IdleCatalog ==
    /\ gPrefs = DEFAULT_MEAL_PREFERENCES
    /\ gSeeds = <<>>

IdleRefresh ==
    /\ fStore = <<>>
    /\ fFlags = [ version |-> NullVersion, legacy |-> FALSE ]
    /\ fSeeding = FALSE
    /\ fState = [ loading |-> FALSE, error |-> FALSE, tasks |-> <<>> ]
    /\ fSummary = -1
    /\ fRun = <<>>
    /\ fSelected = NullDate

IdleReminder ==
    /\ nMap = NoReminders.map
    /\ nLive = {}
    /\ nIssued = 0
    /\ nCalls = 0
    /\ nCall = <<>>

IdleSilent ==
    /\ qStore = <<>>
    /\ qReminders = NoReminders
    /\ qOps = 0

\* ------------------------------------------------------------------------
\* The codec at work on one description: inject, parse, strip
\* ------------------------------------------------------------------------
MaxLines == 2

MarkerLine(prefix, gap, start, end) == prefix \o gap \o start \o <<"-">> \o end

\* lines that begin with the marker prefix: well-formed ones, ones with an
\* hour or a minute out of range, and ones the pattern does not match
MarkerLines ==
    { MarkerLine(TIME_META_PREFIX, <<" ">>,
                 <<"8", ":", "0", "0">>, <<"9", ":", "3", "0">>),
      MarkerLine(TIME_META_PREFIX, <<" ">>,
                 <<"2", "3", ":", "5", "9">>, <<"0", "7", ":", "0", "0">>),
      MarkerLine(TIME_META_PREFIX, <<" ">>,
                 <<"2", "4", ":", "0", "0">>, <<"2", "5", ":", "0", "0">>),
      MarkerLine(TIME_META_PREFIX, <<" ">>,
                 <<"8", ":", "6", "0">>, <<"9", ":", "3", "0">>),
      MarkerLine(TIME_META_PREFIX, <<" ">>,
                 <<"0", ":", "0", "0">>, <<"2", "5", ":", "0", "0">>),
      MarkerLine(<<"@", "T", "I", "M", "E">>, <<" ">>,
                 <<"0", "8", ":", "0", "0">>, <<"0", "9", ":", "0", "0">>),
      MarkerLine(TIME_META_PREFIX, <<"\t", " ">>,
                 <<"1", "0", ":", "1", "5">>, <<"1", "1", ":", "0", "0">>),
      MarkerLine(<<" ">> \o TIME_META_PREFIX, <<" ">>,
                 <<"2", "2", ":", "0", "0">>, <<"0", "4", ":", "0", "0", " ">>),
      MarkerLine(TIME_META_PREFIX, <<>>,
                 <<"1", "0", ":", "0", "0">>, <<"1", "1", ":", "0", "0">>),
      MarkerLine(TIME_META_PREFIX, <<" ">>,
                 <<"1", "0", ":", "0", "0">>, <<"1", "1", ":", "0">>) }

FreeLines ==
    { <<"h", "i">>,
      <<>>,
      <<"t", "i", "m", "e", ":", "x">>,
      <<"@", "t", "i", "m", "e", "x">>,
      <<"T", "i", "m", "e", ":", " ">> \o timeRangeToFriendly([startMinutes |-> 480, endMinutes |-> 540]) }

CodecLines == MarkerLines \cup FreeLines

CodecTexts ==
    {NullText} \cup UNION { [1..n -> CodecLines] : n \in 1..MaxLines }

CodecRanges ==
    { Range(0, 1), Range(480, 540), Range(1320, 1680), Range(1439, 2879),
      Range(600, 300), Range(1380, 1440), Range(720, 720),
      Range(100, 1700), Range(1500, 1560) }

InitCodec ==
    /\ IdleReminder
    /\ IdleSilent
    /\ IdleRefresh
    /\ IdleCatalog
    /\ IdleSort
    /\ cText \in CodecTexts
    /\ cContent = NullText
    /\ cRange = NullRange
    /\ cParsed = UnsetRange
    /\ cNormalized = NullRange
    /\ cPhase = "given"
    /\ IdleRecon
    /\ IdleCascade
    /\ IdleMigrate

CodecInject ==
    \E range \in CodecRanges :
        /\ cContent' = cText
        /\ cText' = injectTimeMetadata(cText, range)
        /\ cRange' = range
        /\ cParsed' = UnsetRange
        /\ cNormalized' = normalizeRange(range)
        /\ cPhase' = "injected"
        /\ UNCHANGED <<reconVars, cascadeVars, migrateVars, sortVars, catalogVars,
                 refreshVars, reminderVars, silentVars>>

CodecParse ==
    /\ cParsed = UnsetRange
    /\ cParsed' = parseTimeRange(cText)
    /\ UNCHANGED <<cText, cContent, cRange, cNormalized, cPhase>>
    /\ UNCHANGED <<reconVars, cascadeVars, migrateVars, sortVars, catalogVars,
                 refreshVars, reminderVars, silentVars>>

\* stripTimeMetadata(cText); after an injection the text that was given to
\* injectTimeMetadata is kept, to compare the stripped text with
CodecStrip ==
    /\ cText' = stripTimeMetadata(cText)
    /\ cContent' = IF cPhase = "injected" THEN cContent ELSE NullText
    /\ cPhase' = IF cPhase = "injected" THEN "stripped" ELSE "given"
    /\ cRange' = NullRange
    /\ cParsed' = UnsetRange
    /\ cNormalized' = NullRange
    /\ UNCHANGED <<reconVars, cascadeVars, migrateVars, sortVars, catalogVars,
                 refreshVars, reminderVars, silentVars>>

NextCodec == CodecInject \/ CodecParse \/ CodecStrip

SpecCodec == InitCodec /\ [][NextCodec]_vars

\* a TimeRange the round-trip property speaks about
ValidRange(range) ==
    /\ 0 <= range.startMinutes /\ range.startMinutes < MINUTES_IN_DAY
    /\ 1 <= rangeDuration(range) /\ rangeDuration(range) <= MINUTES_IN_DAY

HasParsableLine(text) ==
    \E i \in 1..Len(text) : TIME_LINE_REGEX(trim(text[i])) # NoMatch

\* C3: for every range with 0 <= start < 1440 and 1 <= duration <= 1440 and
\* every text, parseTimeRange(injectTimeMetadata(text, range)) is
\* normalizeRange(range), also when the text already held marker lines
RoundTripCodec ==
    (cRange # NullRange /\ ValidRange(cRange) /\ cParsed # UnsetRange)
        => cParsed = normalizeRange(cRange)

\* a range crossing midnight was written over a text that held another
\* marker, and read back
RoundTripCodecWitness ==
    /\ cRange = Range(600, 300)
    /\ HasParsableLine(cContent)
    /\ cParsed = Range(600, 1740)

\* a marker line as the specification defines it: @time H:MM-H:MM with the
\* hours in 0..23 and the minutes in 0..59
WellFormedMarker(line) ==
    LET match == TIME_LINE_REGEX(trim(line))
    IN  /\ match # NoMatch
        /\ Number(match[1]) <= 23 /\ Number(match[2]) <= 59
        /\ Number(match[3]) <= 23 /\ Number(match[4]) <= 59

\* C10: parseTimeRange returns null for every text without a well-formed
\* marker line (hours 0-23, minutes 0-59)
ParseRejectsMalformed ==
    (cParsed # UnsetRange /\ \A i \in 1..Len(cText) : ~WellFormedMarker(cText[i]))
        => cParsed = NullRange

\* the invariant of a normalized TimeRange
WithinDay(range) ==
    /\ range.endMinutes > range.startMinutes
    /\ range.endMinutes - range.startMinutes <= MINUTES_IN_DAY

\* C11: every range that normalizeRange or parseTimeRange returns has
\* endMinutes > startMinutes and endMinutes - startMinutes <= 1440
TimeRangeInvariant ==
    /\ cNormalized # NullRange => WithinDay(cNormalized)
    /\ (cParsed # UnsetRange /\ cParsed # NullRange) => WithinDay(cParsed)

\* a line that parseTimeRange reads as a marker
IsMarkerLine(line) == TIME_LINE_REGEX(trim(line)) # NoMatch

\* a line as injectTimeMetadata generates it for some range
IsGeneratedTimeLine(line) ==
    \E range \in CodecRanges :
        trim(line) = <<"T", "i", "m", "e", ":", " ">> \o timeRangeToFriendly(range)

\* the user's lines of a text: what is neither a marker line nor a
\* generated Time: line (lines are compared trimmed, blank lines left out)
UserLines(content) ==
    SelectSeq(TrimAll(IF content = NullText THEN EmptyString ELSE content),
              LAMBDA line : Len(line) > 0 /\ ~IsMarkerLine(line)
                               /\ ~IsGeneratedTimeLine(line))

\* C20: stripTimeMetadata(injectTimeMetadata(text, range)) is the user's
\* lines of the text (every line that is neither an @time marker line nor
\* the generated Time: line) in their order, and the injected text holds just
\* one marker line and one Time: line, both after the user's lines
FreeTextSurvives ==
    /\ cPhase = "stripped" => cText = join(UserLines(cContent))
    /\ cPhase = "injected" =>
          LET n == Len(cText)
          IN  /\ n >= 2
              /\ IsMarkerLine(cText[n - 1])
              /\ IsGeneratedTimeLine(cText[n])
              /\ \A i \in 1..(n - 2) :
                    ~IsMarkerLine(cText[i]) /\ ~IsGeneratedTimeLine(cText[i])

\* ------------------------------------------------------------------------
\* The Reconciler at work on the task list of one day
\* ------------------------------------------------------------------------
MaxFixed == 2

Days == 1..2

ReconPrefs ==
    { DEFAULT_MEAL_PREFERENCES,
      [ breakfastStart |-> 8 * 60, lunchStart |-> 14 * 60, dinnerStart |-> 21 * 60 ] }

\* how the description of a routine record came about: "plain" holds the
\* summary only, "seeded" is what ensureDefaultRoutines writes, "custom"
\* holds a window the user has set
Forms == {"plain", "seeded", "custom"}

CustomRange(seed) ==
    LET range == seedToRange(seed)
    IN  IF seed.title \in FLEXIBLE_ROUTINE_TITLES
        THEN Range(range.startMinutes + 15, range.startMinutes + 45)
        ELSE Range(range.startMinutes - 30, range.endMinutes - 30)

RoutineDescription(seed, form) ==
    CASE form = "plain" -> seed.summary
      [] form = "seeded" -> buildRoutineDescription(seed)
      [] form = "custom" -> injectTimeMetadata(seed.summary, CustomRange(seed))

ReminderMinute(seed) ==
    IF seed.reminder = NoReminder THEN NullTime
    ELSE seed.reminder.hour * 60 + seed.reminder.minute

FormOf(title, anchorForm, foodForm, flexForm) ==
    IF title \in FOOD_ROUTINE_TITLES THEN foodForm
    ELSE IF title \in FLEXIBLE_ROUTINE_TITLES THEN flexForm
    ELSE anchorForm

\* the nine routine records of a user, with ids 1..9
RoutineRecords(seeds, anchorForm, foodForm, flexForm) ==
    [i \in 1..Len(seeds) |->
        Task(i, seeds[i].title,
             RoutineDescription(seeds[i],
                                FormOf(seeds[i].title, anchorForm, foodForm, flexForm)),
             NullDate, ReminderMinute(seeds[i]), FALSE, i)]

\* a routine of the user's own, outside the catalog
OwnRoutine ==
    Task(10, "gym", injectTimeMetadata(<< <<"g", "y", "m">> >>, Range(18 * 60, 19 * 60)),
         NullDate, NullTime, FALSE, 10)

Note == << <<"n", "o", "t", "e">> >>

\* the dated tasks a day can hold: <<start, end, day>>, start = -1 for a
\* task without a time
FixedPool ==
    << <<8 * 60, 8 * 60 + 45, 1>>,
       <<9 * 60, 14 * 60, 1>>,
       <<9 * 60, 10 * 60, 1>>,
       <<12 * 60, 12 * 60 + 30, 1>>,
       <<5 * 60, 8 * 60, 1>>,
       <<-1, -1, 1>>,
       <<8 * 60, 9 * 60, 2>> >>

FixedTask(k) ==
    LET entry == FixedPool[k]
    IN  Task(10 + k, "task",
             IF entry[1] = -1 THEN Note
             ELSE injectTimeMetadata(Note, Range(entry[1], entry[2])),
             entry[3], NullTime, FALSE, 10 + k)

RECURSIVE SetToSeq(_)
SetToSeq(set) ==
    IF set = {} THEN <<>>
    ELSE LET least == CHOOSE x \in set : \A y \in set : x <= y
         IN  <<least>> \o SetToSeq(set \ {least})

FixedSets == { set \in SUBSET (1..Len(FixedPool)) : Cardinality(set) <= MaxFixed }

FixedRecords(set) ==
    LET order == SetToSeq(set)
    IN  [i \in 1..Len(order) |-> FixedTask(order[i])]

InitRecon ==
    /\ IdleReminder
    /\ IdleSilent
    /\ IdleRefresh
    /\ IdleCatalog
    /\ IdleSort
    /\ IdleCodec
    /\ IdleCascade
    /\ IdleMigrate
    /\ rPrefs \in ReconPrefs
    /\ rSelected \in Days
    /\ \E foodForm \in Forms, flexForm \in Forms, fixed \in FixedSets :
            rTasks = RoutineRecords(routineSeeds(rPrefs),
                                    IF foodForm = "plain" THEN "plain" ELSE "seeded",
                                    foodForm, flexForm)
                       \o <<OwnRoutine>> \o FixedRecords(fixed)
    /\ rPhase = "input"
    /\ rOut = <<>>
    /\ rTurns = <<>>
    /\ rOut2 = <<>>

\* the tasks memo of useTasks: the schedule shown for the selected day
Reconcile ==
    /\ rPhase = "input"
    /\ \E seeds \in { routineSeeds(rPrefs) } :
          /\ rOut' = adjustForSelectedDate(rTasks, rSelected, seeds)
          /\ rTurns' = ScheduleAdjustments(rTasks, rSelected, seeds).turns
    /\ rPhase' = "once"
    /\ UNCHANGED <<rPrefs, rSelected, rTasks, rOut2>>
    /\ UNCHANGED <<codecVars, cascadeVars, migrateVars, sortVars, catalogVars,
                 refreshVars, reminderVars, silentVars>>

\* the Reconciler applied to its own output
ReconcileAgain ==
    /\ rPhase = "once"
    /\ \E seeds \in { routineSeeds(rPrefs) } :
          rOut2' = adjustForSelectedDate(rOut, rSelected, seeds)
    /\ rPhase' = "twice"
    /\ UNCHANGED <<rPrefs, rSelected, rTasks, rOut, rTurns>>
    /\ UNCHANGED <<codecVars, cascadeVars, migrateVars, sortVars, catalogVars,
                 refreshVars, reminderVars, silentVars>>

NextRecon == Reconcile \/ ReconcileAgain

SpecRecon == InitRecon /\ [][NextRecon]_vars

\* the entry of a schedule with the given id, and its window
HasEntry(list, id) == \E i \in 1..Len(list) : list[i].id = id

Entry(list, id) == list[CHOOSE i \in 1..Len(list) : list[i].id = id]

WindowOf(list, id) == parseTimeRange(Entry(list, id).description)

\* how often the record is in the list
Occurrences(list, task) == Cardinality({ i \in 1..Len(list) : list[i] = task })

\* every dated task of the input is in the output once, as it is in the input
KeepsDatedTasks(input, output) ==
    \A i \in 1..Len(input) :
        input[i].due_at # NullDate => Occurrences(output, input[i]) = 1

\* C19: a run of the Reconciler writes to no task store and leaves the
\* records of its input as they are; every dated task of the input is in
\* the output unchanged, and a routine that is not in the output of the day
\* still has its record in the input list as it was before the run.
ReconcilerFrame ==
    [][ rPhase' # rPhase =>
          /\ rTasks' = rTasks
          /\ <<kStore', mStore', fStore'>> = <<kStore, mStore, fStore>>
          /\ KeepsDatedTasks(rTasks, rOut')
          /\ rPhase' = "twice" => KeepsDatedTasks(rOut, rOut2')
          /\ \A i \in 1..Len(rTasks) :
                ~HasEntry(rOut', rTasks[i].id) =>
                    /\ rTasks[i].due_at = NullDate
                    /\ Occurrences(rTasks', rTasks[i]) = 1 ]_vars

\* a run has dropped a routine of the catalog from the day and has kept a
\* dated task of another day and a dated task without a window
ReconcilerFrameWitness ==
    /\ rPhase = "once"
    /\ \E i \in 1..Len(rTasks) :
          /\ rTasks[i].title \in FLEXIBLE_ROUTINE_TITLES
          /\ ~HasEntry(rOut, rTasks[i].id)
    /\ \E i \in 1..Len(rOut) :
          /\ rOut[i].due_at # NullDate
          /\ \/ rOut[i].due_at # rSelected
             \/ parseTimeRange(rOut[i].description) = NullRange

\* C1: no two entries of the Reconciler's output that both have a parseable
\* TimeRange overlap
NonOverlap ==
    rPhase \in {"once", "twice"} =>
        \A i, j \in 1..Len(rOut) :
            (/\ i < j
             /\ parseTimeRange(rOut[i].description) # NullRange
             /\ parseTimeRange(rOut[j].description) # NullRange)
            => ~rangesOverlap(parseTimeRange(rOut[i].description),
                              parseTimeRange(rOut[j].description))

Windows(list) ==
    { <<list[i].id, parseTimeRange(list[i].description)>> : i \in 1..Len(list) }

Overlapping(range, blocking) ==
    { k \in 1..Len(blocking) : rangesOverlap(blocking[k], range) }

LatestEnd(blocking, set) ==
    CHOOSE e \in { blocking[k].endMinutes : k \in set } :
        \A k \in set : blocking[k].endMinutes <= e

\* where the specification puts a meal that its blockers overlap
Displaced(seedRange, blocking) ==
    LET duration == seedRange.endMinutes - seedRange.startMinutes
        latest == LatestEnd(blocking, Overlapping(seedRange, blocking))
        start == IF latest + duration > MINUTES_IN_DAY
                 THEN MINUTES_IN_DAY - duration ELSE latest
    IN  Range(start, start + duration)

\* C4: a meal whose seed range the blocking set overlaps is placed at the
\* latest end among the overlapping blockers, duration preserved, clamped to
\* the end of the day
DisplacementCorrect ==
    rPhase \in {"once", "twice"} =>
        \A t \in 1..Len(rTurns) :
            (/\ rTurns[t].key \in FOOD_ROUTINE_TITLES
             /\ Overlapping(rTurns[t].seedRange, rTurns[t].blocking) # {})
            => /\ HasEntry(rOut, rTurns[t].id)
               /\ WindowOf(rOut, rTurns[t].id)
                    = Displaced(rTurns[t].seedRange, rTurns[t].blocking)

Covers(blocking, minute) ==
    \E k \in 1..Len(blocking) :
        blocking[k].startMinutes <= minute /\ minute < blocking[k].endMinutes

FullyCovered(range, blocking) ==
    \A minute \in range.startMinutes..(range.endMinutes - 1) : Covers(blocking, minute)

\* C5: a flexible routine whose seed window the blocking set covers entirely
\* is absent from the output, and every other routine and task is present
FlexibleDrop ==
    rPhase \in {"once", "twice"} =>
        \A t \in 1..Len(rTurns) :
            (/\ rTurns[t].key \in FLEXIBLE_ROUTINE_TITLES
             /\ FullyCovered(rTurns[t].seedRange, rTurns[t].blocking))
            => /\ ~HasEntry(rOut, rTurns[t].id)
               /\ \A i \in 1..Len(rTasks) :
                     (/\ rTasks[i].id # rTurns[t].id
                      /\ \/ rTasks[i].due_at # NullDate
                         \/ rTasks[i].title \in FOOD_ROUTINE_TITLES
                         \/ rTasks[i].title \in {ROUTINE_TITLES.wake, ROUTINE_TITLES.sleep})
                     => HasEntry(rOut, rTasks[i].id)

\* [from, to) is a free stretch of the window that cannot be extended
IsGap(from, to, window, blocking) ==
    /\ window.startMinutes <= from /\ from < to /\ to <= window.endMinutes
    /\ \A minute \in from..(to - 1) : ~Covers(blocking, minute)
    /\ from = window.startMinutes \/ Covers(blocking, from - 1)
    /\ to = window.endMinutes \/ Covers(blocking, to)

\* the ends of the blockers and of the window: where gaps begin and end
Marks(window, blocking) ==
    {window.startMinutes, window.endMinutes}
        \cup { blocking[k].startMinutes : k \in 1..Len(blocking) }
        \cup { blocking[k].endMinutes : k \in 1..Len(blocking) }

\* C6: a flexible routine that is not dropped occupies exactly the widest
\* uncovered interval of its seed window
LargestGapSelection ==
    rPhase \in {"once", "twice"} =>
        \A t \in 1..Len(rTurns) :
            (/\ rTurns[t].key \in FLEXIBLE_ROUTINE_TITLES
             /\ HasEntry(rOut, rTurns[t].id))
            => LET window == rTurns[t].seedRange
                   blocking == rTurns[t].blocking
                   placed == WindowOf(rOut, rTurns[t].id)
               IN  /\ placed # NullRange
                   /\ IsGap(placed.startMinutes, placed.endMinutes, window, blocking)
                   /\ \A from, to \in Marks(window, blocking) :
                         IsGap(from, to, window, blocking)
                            => to - from <= placed.endMinutes - placed.startMinutes

\* the window each routine got in the turns of a run: <<id, range>>
PlacedWindows(turns) == { <<turns[t].id, turns[t].range>> : t \in 1..Len(turns) }

\* the routines of the catalog in the input whose description holds a
\* parseable window
Persisted ==
    { i \in 1..Len(rTasks) :
        /\ rTasks[i].due_at = NullDate
        /\ rTasks[i].title \in allowedRoutineTitles(routineSeeds(rPrefs))
        /\ parseTimeRange(rTasks[i].description) # NullRange }

PlacementOrderEquivalence ==
    rPhase = "once" =>
        PlacedWindows(rTurns)
            = PlacedWindows(TwoPhaseAdjustments(rTasks, rSelected,
                                                routineSeeds(rPrefs)).turns)

\* ------------------------------------------------------------------------
\* updateTask at work: the user edits time windows, the cascade writes back
\* ------------------------------------------------------------------------
MaxEdits == 1

CascadeSeeds == routineSeeds(DEFAULT_MEAL_PREFERENCES)

CascadeDay == 1

\* which routines of the catalog the list holds (a routine is missing after
\* the user has deleted it or its creation has failed)
PresentTitles ==
    { allowedRoutineTitles(CascadeSeeds),
      allowedRoutineTitles(CascadeSeeds) \ {ROUTINE_TITLES.breakfast},
      allowedRoutineTitles(CascadeSeeds) \ FOOD_ROUTINE_TITLES }

\* the windows the user sets in the form: start within the day, end after it
EditRanges ==
    { Range(4 * 60, 6 * 60),
      Range(4 * 60, 7 * 60 + 59),
      Range(4 * 60, 7 * 60 + 57),
      Range(4 * 60, 21 * 60 + 55),
      Range(8 * 60, 10 * 60),
      Range(8 * 60, 23 * 60) }

\* the tasks the user edits
EditedTitles ==
    { ROUTINE_TITLES.wake, ROUTINE_TITLES.workLateMorning, ROUTINE_TITLES.lunch, "task",
      "gym" }

InitCascade ==
    /\ IdleReminder
    /\ IdleSilent
    /\ IdleRefresh
    /\ IdleCatalog
    /\ IdleSort
    /\ IdleCodec
    /\ IdleRecon
    /\ IdleMigrate
    /\ \E present \in PresentTitles, form \in {"plain", "seeded"} :
          \E held \in { SelectSeq(RoutineRecords(CascadeSeeds, form, form, form),
                                  LAMBDA task : task.title \in present) } :
          \E rows \in { [i \in 1..Len(held) |->
                           IF form = "seeded" /\ held[i].title \in FLEXIBLE_ROUTINE_TITLES
                           THEN [held[i] EXCEPT !.reminder_at =
                                    getRoutineRange(held[i], CascadeSeeds).startMinutes]
                           ELSE held[i]] \o <<OwnRoutine, FixedTask(1)>> } :
              /\ kStore = rows
              /\ kTasks = sortTasks(rows, CascadeSeeds)
    /\ kEdits = 0
    /\ kSource = NullTask
    /\ kPlan = NoCascade
    /\ kPending = <<>>
    /\ kWrites = <<>>
    /\ kOutcome = NoOutcome

\* apiUpdateTask on the rows of the store
StoreUpdate(store, task) ==
    [i \in 1..Len(store) |-> IF store[i].id = task.id THEN task ELSE store[i]]

\* handleUpdateTask(taskId, payload) from the task form: the store write,
\* applyTaskUpdate, and the cascade worked out from the updated list; when
\* apiUpdateTask rejects, the call rejects before anything else is done
UpdateTask ==
    /\ kPending = <<>>
    /\ kEdits < MaxEdits
    /\ \E i \in { n \in 1..Len(kTasks) : kTasks[n].title \in EditedTitles },
          range \in EditRanges, fails \in BOOLEAN :
          \E task \in { [kTasks[i] EXCEPT !.description =
                           injectTimeMetadata(stripTimeMetadata(kTasks[i].description),
                                              range)] } :
              IF fails
              THEN /\ kOutcome' = Outcome("update", task.id, TRUE, TRUE, FALSE, kStore, kTasks)
                   /\ UNCHANGED <<kStore, kTasks, kSource, kPlan, kPending>>
              ELSE \E updatedList \in { applyTaskUpdate(kTasks, task, CascadeDay,
                                                        CascadeSeeds) } :
                   \E plan \in { CascadeFor(updatedList, task, FALSE, CascadeSeeds) } :
                       /\ kStore' = StoreUpdate(kStore, task)
                       /\ kTasks' = updatedList
                       /\ kSource' = task
                       /\ kPlan' = plan
                       /\ kPending' = PendingWrites(plan, CascadeSeeds)
                       /\ kOutcome' = Outcome("update", task.id, FALSE, FALSE, FALSE,
                                              kStore, kTasks)
    /\ kWrites' = <<>>
    /\ kEdits' = kEdits + 1
    /\ UNCHANGED <<codecVars, reconVars, migrateVars, sortVars, catalogVars,
                 refreshVars, reminderVars, silentVars>>

\* await handleUpdateTask(adjustment.task.id, updatePayload, {skipCascade: true}):
\* the call runs to its end before the loop goes on; a rejected call ends
\* the loop and rejects the call of the user
CascadeWrite ==
    /\ kPending # <<>>
    /\ \E update \in { Head(kPending) }, fails \in BOOLEAN :
          IF fails
          THEN /\ kPending' = <<>>
               /\ kOutcome' = Outcome("update", update.id, TRUE, TRUE, FALSE, kStore, kTasks)
               /\ UNCHANGED <<kStore, kTasks, kWrites>>
          ELSE \E row \in { kStore[n] :
                               n \in { m \in 1..Len(kStore) : kStore[m].id = update.id } } :
               \E task \in { [row EXCEPT !.description = update.description,
                                         !.reminder_at = update.reminder_at] } :
               \E updatedList \in { applyTaskUpdate(kTasks, task, CascadeDay,
                                                    CascadeSeeds) } :
               \E plan \in { CascadeFor(updatedList, task, TRUE, CascadeSeeds) } :
                   /\ kStore' = StoreUpdate(kStore, task)
                   /\ kTasks' = updatedList
                   /\ kWrites' = Append(kWrites, [id |-> update.id, range |-> update.range])
                   /\ kPending' = PendingWrites(plan, CascadeSeeds) \o Tail(kPending)
                   /\ kOutcome' = Outcome("update", update.id, FALSE, FALSE, FALSE,
                                          kStore, kTasks)
    /\ UNCHANGED <<kEdits, kSource, kPlan>>
    /\ UNCHANGED <<codecVars, reconVars, migrateVars, sortVars, catalogVars,
                 refreshVars, reminderVars, silentVars>>

\* what the task form submits for a new task: a dated task of the selected
\* day, one of another day, and a routine of the user's own
CreatePayloads ==
    { [ title |-> "task", due_at |-> CascadeDay,
        description |-> injectTimeMetadata(Note, Range(15 * 60, 16 * 60)) ],
      [ title |-> "task", due_at |-> CascadeDay + 1,
        description |-> injectTimeMetadata(Note, Range(15 * 60, 16 * 60)) ],
      [ title |-> "stretch", due_at |-> NullDate,
        description |-> injectTimeMetadata(Note, Range(6 * 60, 6 * 60 + 30)) ] }

\* handleCreateTask(payload): when apiCreateTask rejects, the call rejects
CreateTask ==
    /\ kPending = <<>>
    /\ kEdits < MaxEdits
    /\ \E payload \in CreatePayloads, fails \in BOOLEAN :
          IF fails
          THEN /\ kOutcome' = Outcome("create", 0, TRUE, TRUE, FALSE, kStore, kTasks)
               /\ UNCHANGED <<kStore, kTasks>>
          ELSE \E task \in { Task(MaxId(kStore) + 1, payload.title, payload.description,
                                   payload.due_at, NullTime, FALSE, MaxId(kStore) + 1) } :
                   /\ kStore' = Append(kStore, task)
                   /\ kTasks' = applyTaskUpdate(kTasks, task, CascadeDay, CascadeSeeds)
                   /\ kOutcome' = Outcome("create", task.id, FALSE, FALSE, FALSE,
                                          kStore, kTasks)
    /\ kWrites' = <<>>
    /\ kEdits' = kEdits + 1
    /\ UNCHANGED <<kSource, kPlan, kPending>>
    /\ UNCHANGED <<codecVars, reconVars, migrateVars, sortVars, catalogVars,
                 refreshVars, reminderVars, silentVars>>

\* the tasks the user deletes
DeletedTitles == { "task", "gym", ROUTINE_TITLES.breakfast }

\* handleDeleteTask(taskId): a rejected apiDeleteTask is caught and shown
\* with Alert.alert, and the call resolves
DeleteTask ==
    /\ kPending = <<>>
    /\ kEdits < MaxEdits
    /\ \E i \in { n \in 1..Len(kTasks) : kTasks[n].title \in DeletedTitles },
          fails \in BOOLEAN :
          IF fails
          THEN /\ kOutcome' = Outcome("delete", kTasks[i].id, TRUE, FALSE, TRUE,
                                      kStore, kTasks)
               /\ UNCHANGED <<kStore, kTasks>>
          ELSE /\ kStore' = SelectSeq(kStore, LAMBDA row : row.id # kTasks[i].id)
               /\ kTasks' = applyTaskDeletion(kTasks, kTasks[i].id, CascadeSeeds)
               /\ kOutcome' = Outcome("delete", kTasks[i].id, FALSE, FALSE, FALSE,
                                      kStore, kTasks)
    /\ kWrites' = <<>>
    /\ kEdits' = kEdits + 1
    /\ UNCHANGED <<kSource, kPlan, kPending>>
    /\ UNCHANGED <<codecVars, reconVars, migrateVars, sortVars, catalogVars,
                 refreshVars, reminderVars, silentVars>>

NextCascade == UpdateTask \/ CascadeWrite \/ CreateTask \/ DeleteTask

SpecCascade == InitCascade /\ [][NextCascade]_vars

\* C7: each window the cascade writes for a sibling lasts at least
\* MIN_ROUTINE_MINUTES
CascadeFloor ==
    \A w \in 1..Len(kWrites) :
        kWrites[w].range.endMinutes - kWrites[w].range.startMinutes >= MIN_ROUTINE_MINUTES

\* C22: when the cascade works out a window for at least one sibling, the
\* windows follow one another without a gap from min(new end of the edited
\* routine, start of the boundary), each lies between that minute and the
\* start of the boundary, and the last ends at the start of the boundary
CascadePinning ==
    LET windows == [i \in 1..Len(kPlan.adjustments) |-> kPlan.adjustments[i].range]
        from == Min(getRoutineRange(kSource, CascadeSeeds).endMinutes,
                    kPlan.boundaryStart)
    IN  Len(windows) >= 1 =>
            /\ windows[1].startMinutes = from
            /\ \A i \in 1..(Len(windows) - 1) :
                  windows[i + 1].startMinutes = windows[i].endMinutes
            /\ \A i \in 1..Len(windows) :
                  /\ from <= windows[i].startMinutes
                  /\ windows[i].startMinutes <= windows[i].endMinutes
                  /\ windows[i].endMinutes <= kPlan.boundaryStart
            /\ windows[Len(windows)].endMinutes = kPlan.boundaryStart

\* an edit whose cascade works out windows for several siblings, and one
\* whose only sibling would end before the boundary without the pin
CascadePinningWitness ==
    /\ Len(kPlan.adjustments) >= 1
    /\ \/ Len(kPlan.adjustments) >= 2
       \/ kPlan.cursor + (getRoutineRange(kPlan.targets[1], CascadeSeeds).endMinutes
                            - getRoutineRange(kPlan.targets[1], CascadeSeeds).startMinutes)
             < kPlan.boundaryStart

\* the routine has nothing to cascade to: in the order of the catalog no
\* anchor routine comes after it, or the next anchor comes right after it
NoSiblings(list, task) ==
    LET routines == CascadeRoutines(list, CascadeSeeds)
        source == findIndex(routines, task.id)
        anchors == { i \in (source + 1)..Len(routines) :
                        routines[i].title \in ANCHOR_ROUTINE_TITLES }
    IN  /\ task.due_at = NullDate
        /\ source # 0
        /\ anchors = {} \/ (source + 1) \in anchors

\* the last call was the user's edit of kSource, and the store took it
EditDone ==
    /\ kOutcome.op = "update"
    /\ ~kOutcome.failed
    /\ kOutcome.id = kSource.id

\* C13: when no anchor routine follows the edited routine in catalog order,
\* or no routine lies between the two, the cascade of updateTask writes no
\* other routine to the store and the call is not rejected
CascadeNoOp ==
    (EditDone /\ NoSiblings(kTasks, kSource)) =>
        /\ ~kOutcome.rejected
        /\ kPending = <<>>
        /\ kWrites = <<>>
        /\ Len(kStore) = Len(kOutcome.before.store)
        /\ \A n \in 1..Len(kStore) :
              kStore[n].id # kSource.id => kStore[n] = kOutcome.before.store[n]

\* the late-morning block was edited while lunch, the next anchor, comes
\* right after it; the store holds the edit
CascadeNoOpWitness ==
    /\ EditDone
    /\ NoSiblings(kTasks, kSource)
    /\ kSource.title = ROUTINE_TITLES.workLateMorning
    /\ kPlan.boundaryStart # -1
    /\ parseTimeRange(kSource.description) = Range(8 * 60, 23 * 60)
    /\ \E n \in 1..Len(kStore) : kStore[n] = kSource

\* the routines between a routine and the next anchor in the order of the
\* catalog
Siblings(list, task) ==
    LET routines == CascadeRoutines(list, CascadeSeeds)
        source == findIndex(routines, task.id)
        anchors == { i \in (source + 1)..Len(routines) :
                        routines[i].title \in ANCHOR_ROUTINE_TITLES }
    IN  IF task.due_at # NullDate \/ source = 0 \/ anchors = {} THEN {}
        ELSE { routines[i] :
                 i \in { j \in (source + 1)..Len(routines) :
                           \A b \in anchors : j < b } }

\* updateTask has changed a routine's window and its cascade has run to its
\* end without a rejected call
CascadeCompleted ==
    /\ kEdits > 0
    /\ kOutcome.op = "update"
    /\ ~kOutcome.failed
    /\ kPending = <<>>
    /\ \/ kOutcome.id = kSource.id
       \/ kWrites # <<>>

\* C25: once updateTask has changed a routine's window and the cascade has
\* completed, no routine between the edited routine and the next anchor
\* overlaps the new window of the edited routine, also when the new window
\* ends at or after the start of the anchor
NoOverlapAfterEdit ==
    CascadeCompleted =>
        \A sibling \in Siblings(kTasks, kSource) :
            ~rangesOverlap(getRoutineRange(sibling, CascadeSeeds),
                           getRoutineRange(kSource, CascadeSeeds))

\* C16: when the task store fails during createTask, updateTask or
\* deleteTask, the promise of the call is rejected and state.tasks is as the
\* call found it
ErrorPropagation ==
    kOutcome.failed => (kOutcome.rejected /\ kTasks = kOutcome.before.tasks)

\* the ids of the sibling writes of the cascade, made and still to make
IssuedWrites ==
    [n \in 1..Len(kWrites) |-> kWrites[n].id] \o [n \in 1..Len(kPending) |-> kPending[n].id]

\* the place in the catalog of the target of the cascade with that id, -1
\* when the cascade has no such target
TargetOrder(id) ==
    IF \E t \in 1..Len(kPlan.targets) : kPlan.targets[t].id = id
    THEN routineOrder(CascadeSeeds,
                      kPlan.targets[CHOOSE t \in 1..Len(kPlan.targets) :
                                       kPlan.targets[t].id = id].title)
    ELSE -1

\* C18: the sibling writes of a cascade go one at a time in the order of the
\* catalog, each to a target of the cascade and none to the edited routine,
\* and no write sets off a cascade of its own: a sibling is written at most
\* once
CascadeProtocol ==
    /\ \A n \in 1..Len(IssuedWrites) :
          /\ TargetOrder(IssuedWrites[n]) # -1
          /\ IssuedWrites[n] # kSource.id
    /\ \A m, n \in 1..Len(IssuedWrites) :
          m < n => TargetOrder(IssuedWrites[m]) < TargetOrder(IssuedWrites[n])
    /\ Len(IssuedWrites) <= Len(kPlan.targets)

\* a cascade over two siblings has written both
CascadeProtocolWitness ==
    /\ Len(kWrites) = 2
    /\ kPending = <<>>
    /\ Len(kPlan.targets) = 2
    /\ ~kOutcome.failed
    /\ \A w \in 1..2 :
          \E n \in 1..Len(kStore) :
              /\ kStore[n].id = kWrites[w].id
              /\ parseTimeRange(kStore[n].description) = kWrites[w].range

\* ------------------------------------------------------------------------
\* ensureDefaultRoutines at work: passes over a user's stored tasks
\* ------------------------------------------------------------------------
MaxPasses == 2

MigrateDay == 1

\* a routine left over from an earlier catalog, with a window of its own
LegacyRoutine ==
    Task(20, "midday rest",
         injectTimeMetadata(<< <<"r", "e", "s", "t">> >>, Range(13 * 60, 13 * 60 + 30)),
         NullDate, NullTime, FALSE, 20)

\* the titles whose API call is rejected during a pass
FailingSets == { {}, {"midday rest", ROUTINE_TITLES.breakfast, ROUTINE_TITLES.dinner} }

\* what the store holds of the flags: <<routine version, legacy flag>>
StoredFlags ==
    { <<NullVersion, FALSE>>, <<NullVersion, TRUE>>, <<"3", FALSE>>, <<ROUTINE_VERSION, FALSE>> }

InitMigrate ==
    /\ IdleReminder
    /\ IdleSilent
    /\ IdleRefresh
    /\ IdleCatalog
    /\ IdleSort
    /\ IdleCodec
    /\ IdleRecon
    /\ IdleCascade
    /\ \E foodForm \in Forms, flexForm \in Forms, sparse \in BOOLEAN :
          LET seeds == routineSeeds(DEFAULT_MEAL_PREFERENCES)
              all == RoutineRecords(seeds, foodForm, foodForm, flexForm)
              held == SelectSeq(all, LAMBDA task :
                         ~sparse \/ task.title # ROUTINE_TITLES.breakfast)
              rows == [i \in 1..Len(held) |->
                         IF sparse THEN [held[i] EXCEPT !.reminder_at = NullTime]
                         ELSE held[i]]
          IN  mStore = rows \o <<OwnRoutine>>
                            \o (IF sparse THEN <<LegacyRoutine>> ELSE <<>>)
                            \o <<FixedTask(1), FixedTask(7)>>
    /\ \E flags \in StoredFlags : mFlag = flags[1] /\ mLegacyFlag = flags[2]
    /\ mPrefs = DEFAULT_MEAL_PREFERENCES
    /\ mPasses = 0
    /\ mPass = [ prefs |-> DEFAULT_MEAL_PREFERENCES, existing |-> <<>>, tasks |-> <<>>,
                 calls |-> <<>>, shouldUpgrade |-> FALSE, failing |-> {} ]

\* the pass refresh makes over the list the API returned
EnsureDefaultRoutines ==
    /\ mPasses < MaxPasses
    /\ \E failing \in FailingSets, sameDay \in BOOLEAN :
          \E pass \in { ensureDefaultRoutines(listTasks(mStore, MigrateDay),
                             routineSeeds(mPrefs), mFlag, mLegacyFlag,
                             [ failing |-> failing, sameDay |-> sameDay,
                               now |-> 30 + mPasses, lastId |-> MaxId(mStore) ]) } :
              /\ mStore' = StoreAfter(mStore, pass.calls, 1)
              /\ mFlag' = pass.flag
              /\ mLegacyFlag' = pass.legacyFlag
              /\ mPass' = [ prefs |-> mPrefs, existing |-> listTasks(mStore, MigrateDay),
                            tasks |-> pass.tasks, calls |-> pass.calls,
                            shouldUpgrade |-> pass.shouldUpgrade, failing |-> failing ]
    /\ mPasses' = mPasses + 1
    /\ UNCHANGED mPrefs
    /\ UNCHANGED <<codecVars, reconVars, cascadeVars, sortVars, catalogVars,
                 refreshVars, reminderVars, silentVars>>

\* the user changes the meal times: routineSeeds is computed anew
SetMealPreferences ==
    /\ \E prefs \in ReconPrefs : prefs # mPrefs /\ mPrefs' = prefs
    /\ UNCHANGED <<mStore, mFlag, mLegacyFlag, mPasses, mPass>>
    /\ UNCHANGED <<codecVars, reconVars, cascadeVars, sortVars, catalogVars,
                 refreshVars, reminderVars, silentVars>>

NextMigrate == EnsureDefaultRoutines \/ SetMealPreferences

SpecMigrate == InitMigrate /\ [][NextMigrate]_vars

\* the routines of a list that have a seed and a window other than the seed's
CustomRoutines(tasks, seeds) ==
    { i \in 1..Len(tasks) :
        /\ tasks[i].due_at = NullDate
        /\ \E s \in 1..Len(seeds) :
              seeds[s].title = tasks[i].title /\ hasCustomRange(tasks[i], seeds[s]) }

KeptIn(tasks, task) ==
    \E j \in 1..Len(tasks) :
        /\ tasks[j].id = task.id
        /\ tasks[j].description = task.description
        /\ parseTimeRange(tasks[j].description) = parseTimeRange(task.description)

\* C8: after a pass of ensureDefaultRoutines, upgrade or not, every routine
\* whose parsed window differed from its seed's window before the pass has
\* the description and the window it had before, in the list the pass
\* returns and in the store
MigrationNonDestructive ==
    mPasses > 0 =>
        \A i \in CustomRoutines(mPass.existing, routineSeeds(mPass.prefs)) :
            /\ KeptIn(mPass.tasks, mPass.existing[i])
            /\ KeptIn(mStore, mPass.existing[i])

\* an upgrade pass that wrote to the store while a routine with a window of
\* its own was in the list
MigrationNonDestructiveWitness ==
    /\ mPasses > 0
    /\ mPass.shouldUpgrade
    /\ \E c \in 1..Len(mPass.calls) : mPass.calls[c].op = "update"
    /\ \E c \in 1..Len(mPass.calls) : mPass.calls[c].op = "delete"
    /\ CustomRoutines(mPass.existing, routineSeeds(mPass.prefs)) # {}

\* C14: once a pass that found a version mismatch has finished and set the
\* version marker to the current version, the store holds no routine with a
\* legacy title outside the catalog, and the legacy flag is cleared
LegacyCleanup ==
    (mPasses > 0 /\ mPass.shouldUpgrade /\ mFlag = ROUTINE_VERSION) =>
        /\ \A n \in 1..Len(mStore) :
              ~IsLegacyRoutine(mStore[n], routineSeeds(mPass.prefs))
        /\ ~mLegacyFlag

\* C23: a pass of ensureDefaultRoutines that found the stored version equal
\* to the current catalog version only creates the routines that are
\* missing: it issues no update, of the description or of reminder_at, to a
\* routine that exists
UpgradeGate ==
    (mPasses > 0 /\ ~mPass.shouldUpgrade) =>
        \A c \in 1..Len(mPass.calls) : mPass.calls[c].op = "create"

\* ------------------------------------------------------------------------
\* The comparator at work: lists of routines and dated tasks
\* ------------------------------------------------------------------------
MaxSort == 3

SortSeeds == routineSeeds(DEFAULT_MEAL_PREFERENCES)

SortTitles ==
    { ROUTINE_TITLES.breakfast, ROUTINE_TITLES.workLateMorning, "gym", "task" }

\* the lists of up to MaxSort entries with different titles
SortLists ==
    { list \in UNION { [1..n -> SortTitles] : n \in 2..MaxSort } :
        \A i \in 1..Len(list) : \A j \in 1..Len(list) : i # j => list[i] # list[j] }

\* which entries have no marker, which are completed
UntimedSets == { {}, {ROUTINE_TITLES.workLateMorning},
                 {ROUTINE_TITLES.breakfast, ROUTINE_TITLES.workLateMorning} }

CompletedSets == { {}, {ROUTINE_TITLES.breakfast} }

InitSort ==
    /\ IdleReminder
    /\ IdleSilent
    /\ IdleRefresh
    /\ IdleCatalog
    /\ IdleCodec
    /\ IdleRecon
    /\ IdleCascade
    /\ IdleMigrate
    /\ \E titles \in SortLists, untimed \in UntimedSets, completed \in CompletedSets,
          newestFirst \in BOOLEAN :
          sList = [i \in 1..Len(titles) |->
                     Task(i, titles[i],
                          IF titles[i] \in untimed THEN Note
                          ELSE injectTimeMetadata(Note, Range(9 * 60, 10 * 60)),
                          IF titles[i] = "task" THEN 1 ELSE NullDate,
                          NullTime,
                          titles[i] \in completed,
                          IF newestFirst THEN Len(titles) + 1 - i ELSE i)]
    /\ sPhase = "input"
    /\ sVerdict = 0
    /\ sSorted = <<>>

\* comparator(a, b) on the first two entries
Compare ==
    /\ sPhase = "input"
    /\ sVerdict' = compareTasks(SortSeeds, sList[1], sList[2])
    /\ sPhase' = "compared"
    /\ UNCHANGED <<sList, sSorted>>
    /\ UNCHANGED <<codecVars, reconVars, cascadeVars, migrateVars, catalogVars,
                 refreshVars, reminderVars, silentVars>>

\* sortTaskList(list)
SortList ==
    /\ sPhase = "compared"
    /\ sSorted' = sortTasks(sList, SortSeeds)
    /\ sPhase' = "sorted"
    /\ UNCHANGED <<sList, sVerdict>>
    /\ UNCHANGED <<codecVars, reconVars, cascadeVars, migrateVars, catalogVars,
                 refreshVars, reminderVars, silentVars>>

NextSort == Compare \/ SortList

SpecSort == InitSort /\ [][NextSort]_vars

StartKey(task) ==
    IF parseTimeRange(task.description) # NullRange
    THEN normalizeRange(parseTimeRange(task.description)).startMinutes
    ELSE POSITIVE_INFINITY

\* two routines of the catalog, alike in completion and in start minute
OrdinalPair(a, b) ==
    /\ a.due_at = NullDate /\ b.due_at = NullDate
    /\ a.is_completed = b.is_completed
    /\ StartKey(a) = StartKey(b)
    /\ routineOrder(SortSeeds, a.title) # -1
    /\ routineOrder(SortSeeds, b.title) # -1
    /\ routineOrder(SortSeeds, a.title) # routineOrder(SortSeeds, b.title)

OnlyRoutines(list) == \A i \in 1..Len(list) : list[i].due_at = NullDate

\* C9: for two routines of the catalog with the same completion status and
\* the same parsed start minute, the comparator puts the one with the lower
\* catalog ordinal first whatever their created_at values are, and so does
\* the sorted list of routines
SortByCatalogOrdinal ==
    /\ (sPhase # "input" /\ OrdinalPair(sList[1], sList[2])) =>
          /\ sVerdict # 0
          /\ sVerdict < 0 <=> routineOrder(SortSeeds, sList[1].title)
                                 < routineOrder(SortSeeds, sList[2].title)
    /\ (sPhase = "sorted" /\ OnlyRoutines(sList)) =>
          \A i \in 1..Len(sSorted) : \A j \in (i + 1)..Len(sSorted) :
              OrdinalPair(sSorted[i], sSorted[j]) =>
                  routineOrder(SortSeeds, sSorted[i].title)
                      < routineOrder(SortSeeds, sSorted[j].title)

\* the routine with the lower ordinal is the older one, so that created_at
\* descending would put it last
SortByCatalogOrdinalWitness ==
    /\ sPhase = "sorted"
    /\ OnlyRoutines(sList)
    /\ OrdinalPair(sList[1], sList[2])
    /\ routineOrder(SortSeeds, sList[1].title) < routineOrder(SortSeeds, sList[2].title)
    /\ sList[1].created_at < sList[2].created_at
    /\ sVerdict < 0
    /\ sSorted[1].title = sList[1].title

\* comparator(a, b) < 0: a goes before b
Before(a, b) == compareTasks(SortSeeds, a, b) < 0

\* C26: the comparator is transitive on any three entries of a list that
\* mixes dated tasks and routines: if it puts a before b and b before c, it
\* puts a before c
ComparatorTransitive ==
    sPhase # "input" =>
        \A i \in 1..Len(sList) : \A j \in 1..Len(sList) : \A k \in 1..Len(sList) :
            (Before(sList[i], sList[j]) /\ Before(sList[j], sList[k]))
                => Before(sList[i], sList[k])

\* ------------------------------------------------------------------------
\* The routine catalog as the meal preferences change
\* ------------------------------------------------------------------------
\* the minutes of the day the stored preferences can hold (clampMinutes of
\* storage/meal-preferences keeps them in 0..1439)
BreakfastChoices == { 0, 5 * 60, 8 * 60, 10 * 60 + 30, 11 * 60, 13 * 60 }

LunchChoices == { 0, 6 * 60, 11 * 60 + 30, 14 * 60, 17 * 60, 20 * 60 }

DinnerChoices == { 0, 15 * 60, 18 * 60, 20 * 60, 21 * 60, 23 * 60 }

\* useTasks after construction: the default preferences and their memo
InitCatalog ==
    /\ IdleReminder
    /\ IdleSilent
    /\ IdleRefresh
    /\ IdleCodec
    /\ IdleRecon
    /\ IdleCascade
    /\ IdleMigrate
    /\ IdleSort
    /\ gPrefs = DEFAULT_MEAL_PREFERENCES
    /\ gSeeds = routineSeeds(DEFAULT_MEAL_PREFERENCES)

\* syncPreferences: setMealPreferences(stored), and the memos computed anew
LoadMealPreferences ==
    /\ \E breakfast \in BreakfastChoices, lunch \in LunchChoices,
          dinner \in DinnerChoices :
          \E stored \in { [ breakfastStart |-> breakfast, lunchStart |-> lunch,
                             dinnerStart |-> dinner ] } :
              /\ gPrefs' = stored
              /\ gSeeds' = routineSeeds(stored)
    /\ UNCHANGED <<codecVars, reconVars, cascadeVars, migrateVars, sortVars,
                 refreshVars, reminderVars, silentVars>>

NextCatalog == LoadMealPreferences

SpecCatalog == InitCatalog /\ [][NextCatalog]_vars

\* the nine canonical routines in their order
CanonicalTitles ==
    << ROUTINE_TITLES.wake, ROUTINE_TITLES.workEarly, ROUTINE_TITLES.breakfast,
       ROUTINE_TITLES.workLateMorning, ROUTINE_TITLES.lunch,
       ROUTINE_TITLES.workAfternoon, ROUTINE_TITLES.dinner,
       ROUTINE_TITLES.workEvening, ROUTINE_TITLES.sleep >>

\* the range of seed i is the gap between the windows of its neighbours
FillsGap(seeds, i) ==
    seedToRange(seeds[i]) = Range(seedToRange(seeds[i - 1]).endMinutes,
                                  seedToRange(seeds[i + 1]).startMinutes)

\* C12: for every meal-preference triple buildRoutineSeeds returns the nine
\* canonical routines in their order, and the range of each flexible work
\* seed is the gap between the seed windows of the anchors next to it
CatalogSeedWindows ==
    /\ [i \in 1..Len(gSeeds) |-> gSeeds[i].title] = CanonicalTitles
    /\ \A i \in 1..Len(gSeeds) :
          gSeeds[i].title \in FLEXIBLE_ROUTINE_TITLES => FillsGap(gSeeds, i)

\* ------------------------------------------------------------------------
\* refresh at work: calls of refresh that can be in flight together
\* ------------------------------------------------------------------------
\* two calls of refresh: the one the effect of useTasks makes when the hook
\* mounts, and the one it makes when refresh changes (the meal preferences
\* have loaded, another day is selected) or the screen asks for
Refreshes == { "effect", "pull" }

RefreshSeeds == routineSeeds(DEFAULT_MEAL_PREFERENCES)

\* whose tasks the store holds: a user who has just signed up, one with the
\* routines of the first catalog, one with the current routines
RefreshUsers == { "new", "legacy", "current" }

UserStore(user) ==
    CASE user = "new" -> <<>>
      [] user = "legacy" ->
            SelectSeq(RoutineRecords(RefreshSeeds, "plain", "plain", "plain"),
                      LAMBDA task : task.title # ROUTINE_TITLES.breakfast)
                \o <<LegacyRoutine, FixedTask(1), FixedTask(7)>>
      [] user = "current" ->
            RoutineRecords(RefreshSeeds, "seeded", "seeded", "seeded")
                \o <<OwnRoutine, FixedTask(1), FixedTask(7)>>

UserFlags(user) ==
    CASE user = "new" -> [ version |-> NullVersion, legacy |-> FALSE ]
      [] user = "legacy" -> [ version |-> NullVersion, legacy |-> TRUE ]
      [] user = "current" -> [ version |-> ROUTINE_VERSION, legacy |-> FALSE ]

\* a call of refresh: where it stands, its local tasks, the titles whose API
\* call failed in its pass of ensureDefaultRoutines, whether it made a pass
\* at all, and how it ended
NotStarted ==
    [ pc |-> "idle", tasks |-> <<>>, failing |-> {}, migrated |-> FALSE,
      outcome |-> "none", date |-> NullDate ]

InitRefresh ==
    /\ IdleReminder
    /\ IdleSilent
    /\ IdleCodec
    /\ IdleRecon
    /\ IdleCascade
    /\ IdleMigrate
    /\ IdleSort
    /\ IdleCatalog
    /\ \E user \in RefreshUsers :
          /\ fStore = UserStore(user)
          /\ fFlags = UserFlags(user)
    /\ fSeeding = FALSE
    /\ fState = [ loading |-> TRUE, error |-> FALSE, tasks |-> <<>> ]
    /\ fSummary = -1
    /\ fRun = [p \in Refreshes |-> NotStarted]
    /\ fSelected = MigrateDay

RefreshRest ==
    <<codecVars, reconVars, cascadeVars, migrateVars, sortVars, catalogVars,
      reminderVars, silentVars>>

\* refresh(): setState(loading) and the request to the API is sent, for the
\* range of the day selected when the callback was made; selecting another
\* day makes a new callback, and the effect on [refresh] calls it
RefreshStart(p) ==
    /\ fRun[p].pc = "idle"
    /\ \E date \in Days :
          /\ fSelected' = date
          /\ fRun' = [fRun EXCEPT ![p].pc = "fetch", ![p].date = date]
    /\ fState' = [fState EXCEPT !.loading = TRUE, !.error = FALSE]
    /\ UNCHANGED <<fStore, fFlags, fSeeding, fSummary>>
    /\ UNCHANGED RefreshRest

\* await apiFetchTasks: the list of the day, or the catch block of refresh
FetchTasks(p) ==
    /\ fRun[p].pc = "fetch"
    /\ \E fails \in BOOLEAN :
          IF fails
          THEN /\ fRun' = [fRun EXCEPT ![p].pc = "done", ![p].outcome = "error"]
               /\ fState' = [fState EXCEPT !.loading = FALSE, !.error = TRUE]
          ELSE /\ fRun' = [fRun EXCEPT ![p].pc = "ensure",
                                        ![p].tasks = listTasks(fStore, fRun[p].date)]
               /\ UNCHANGED fState
    /\ UNCHANGED <<fStore, fFlags, fSeeding, fSummary, fSelected>>
    /\ UNCHANGED RefreshRest

\* ensureDefaultRoutines(tasks) up to its first await: with seedingRef set
\* the call returns the list it was given
EnsureEnter(p) ==
    /\ fRun[p].pc = "ensure"
    /\ IF fSeeding
       THEN /\ fRun' = [fRun EXCEPT ![p].pc = "sync"]
            /\ UNCHANGED fSeeding
       ELSE /\ fRun' = [fRun EXCEPT ![p].pc = "seeding"]
            /\ fSeeding' = TRUE
    /\ UNCHANGED <<fStore, fFlags, fState, fSummary, fSelected>>
    /\ UNCHANGED RefreshRest

\* the pass of ensureDefaultRoutines, its API calls, the flags, and finally
\* seedingRef.current = false
EnsureRun(p) ==
    /\ fRun[p].pc = "seeding"
    /\ \E failing \in FailingSets, sameDay \in BOOLEAN :
          \E pass \in { ensureDefaultRoutines(fRun[p].tasks, RefreshSeeds,
                             fFlags.version, fFlags.legacy,
                             [ failing |-> failing, sameDay |-> sameDay,
                               now |-> MaxId(fStore) + 1, lastId |-> MaxId(fStore) ]) } :
              /\ fStore' = StoreAfter(fStore, pass.calls, 1)
              /\ fFlags' = [ version |-> pass.flag, legacy |-> pass.legacyFlag ]
              /\ fRun' = [fRun EXCEPT ![p].pc = "sync", ![p].tasks = pass.tasks,
                                       ![p].failing = failing, ![p].migrated = TRUE]
    /\ fSeeding' = FALSE
    /\ UNCHANGED <<fState, fSummary, fSelected>>
    /\ UNCHANGED RefreshRest

\* await syncTaskReminders(tasks)
SyncReminders(p) ==
    /\ fRun[p].pc = "sync"
    /\ \E stale \in BOOLEAN :
          /\ fRun' = [fRun EXCEPT ![p].pc = "show",
                                   ![p].tasks = syncTaskReminders(fRun[p].tasks, fStore, stale)]
          /\ fStore' = StoreAfterSync(fStore, fRun[p].tasks, stale)
    /\ UNCHANGED <<fFlags, fSeeding, fState, fSummary, fSelected>>
    /\ UNCHANGED RefreshRest

\* setState({loading: false, error: null, tasks: sorted}) and the daily
\* summary of the reconciled list
ShowTasks(p) ==
    /\ fRun[p].pc = "show"
    /\ \E sorted \in { sortTasks(fRun[p].tasks, RefreshSeeds) } :
          /\ fState' = [ loading |-> FALSE, error |-> FALSE, tasks |-> sorted ]
          /\ fSummary' = countActiveTasks(adjustForSelectedDate(sorted, fRun[p].date,
                                                                RefreshSeeds))
          /\ fRun' = [fRun EXCEPT ![p].pc = "done", ![p].tasks = sorted,
                                   ![p].outcome = "shown"]
    /\ UNCHANGED <<fStore, fFlags, fSeeding, fSelected>>
    /\ UNCHANGED RefreshRest

NextRefresh ==
    \E p \in Refreshes :
        \/ RefreshStart(p)
        \/ FetchTasks(p)
        \/ EnsureEnter(p)
        \/ EnsureRun(p)
        \/ SyncReminders(p)
        \/ ShowTasks(p)

SpecRefresh == InitRefresh /\ [][NextRefresh]_vars

HasRoutine(list, title) ==
    \E n \in 1..Len(list) : list[n].due_at = NullDate /\ list[n].title = title

\* the routine of the list with the title
RoutineOf(list, title) ==
    list[CHOOSE n \in 1..Len(list) : list[n].due_at = NullDate /\ list[n].title = title]

\* the seed whose call did not fail has been processed: its routine is in
\* the list, and unless the routine holds a window of the user's its
\* reminder is the one of the seed
SeedProcessed(list, seed) ==
    /\ HasRoutine(list, seed.title)
    /\ ~hasCustomRange(RoutineOf(list, seed.title), seed) =>
           RoutineOf(list, seed.title).reminder_at = buildRoutineReminderDate(seed)

\* C15: when the create or update call of a seed
\* fails inside the seeding pass, the other seeds are still processed, the
\* pass returns a list that keeps the tasks it was given, the dated tasks of
\* the day fetched and the user's own routines (the legacy routines of an
\* upgrade aside), and the refresh does not end in the error state because
\* of it.
SeedingFailureIsolation ==
    \A p \in Refreshes :
        fRun[p].migrated =>
            /\ \A s \in 1..Len(RefreshSeeds) :
                  RefreshSeeds[s].title \notin fRun[p].failing =>
                      SeedProcessed(fRun[p].tasks, RefreshSeeds[s])
            /\ \A n \in 1..Len(fStore) :
                  (fStore[n].due_at = fRun[p].date \/ fStore[n].title = OwnRoutine.title) =>
                      \E t \in 1..Len(fRun[p].tasks) : fRun[p].tasks[t] = fStore[n]
            /\ fRun[p].outcome # "error"
            /\ fRun[p].pc = "done" => fRun[p].outcome = "shown"

\* a refresh of a new user is on the screen, in whose pass the call for
\* breakfast failed and the one for lunch, a later seed, created the routine
SeedingFailureIsolationWitness ==
    \E p \in Refreshes :
        /\ fRun[p].migrated
        /\ fRun[p].outcome = "shown"
        /\ ROUTINE_TITLES.breakfast \in fRun[p].failing
        /\ ~HasRoutine(fRun[p].tasks, ROUTINE_TITLES.breakfast)
        /\ HasRoutine(fRun[p].tasks, ROUTINE_TITLES.lunch)
        /\ ~fState.error
        /\ fState.tasks = fRun[p].tasks

\* the list as a pass without failures leaves it: a routine for every seed
\* of the catalog and no routine of the first catalog
Migrated(list) ==
    /\ \A s \in 1..Len(RefreshSeeds) : HasRoutine(list, RefreshSeeds[s].title)
    /\ \A n \in 1..Len(list) : ~IsLegacyRoutine(list[n], RefreshSeeds)

\* the dated tasks of a list, and those the store holds for a day
DatedIds(list) == { list[i].id : i \in { j \in 1..Len(list) : list[j].due_at # NullDate } }

\* C29: once two refreshes have both completed, state.tasks holds the dated
\* tasks of the day that is selected, whichever call finished last
LatestDateWins ==
    (\A p \in Refreshes : fRun[p].outcome = "shown") =>
        DatedIds(fState.tasks) = DatedIds(listTasks(fStore, fSelected))

\* C27: whatever the interleaving of the calls of refresh, the store never
\* holds two routines with the same canonical title (a title is held in its
\* lower-case form)
SeedingAtMostOnce ==
    \A i \in 1..Len(fStore) : \A j \in 1..Len(fStore) :
        (/\ i # j
         /\ fStore[i].due_at = NullDate
         /\ fStore[j].due_at = NullDate)
            => fStore[i].title # fStore[j].title

\* C17: seeding and migration are over before the reminder
\* sync of a refresh starts and before its list is shown, also when
\* refreshes overlap: with no API call failing, the list a refresh hands to
\* the sync and to the screen is the migrated one.
RefreshOrdering ==
    \A p \in Refreshes :
        ( /\ fRun[p].pc \in {"sync", "show", "done"}
          /\ fRun[p].outcome # "error"
          /\ \A q \in Refreshes : fRun[q].failing = {} ) =>
            Migrated(fRun[p].tasks)

\* ------------------------------------------------------------------------
\* The reminder service at work: calls of scheduleTaskReminder and
\* cancelTaskReminder whose awaits interleave
\* ------------------------------------------------------------------------
MaxCalls == 3

\* the calls in flight at a time: syncTaskReminders starts one per task
\* under Promise.all, and the hook starts calls while a sync is under way
Callers == { "first", "second" }

IdleCall ==
    [ pc |-> "idle", op |-> "none", taskId |-> 0, map |-> NoReminders.map,
      notificationId |-> NoNotification ]

InitReminder ==
    /\ IdleSilent
    /\ IdleCodec
    /\ IdleRecon
    /\ IdleCascade
    /\ IdleMigrate
    /\ IdleSort
    /\ IdleCatalog
    /\ IdleRefresh
    /\ nMap = NoReminders.map
    /\ nLive = {}
    /\ nIssued = 0
    /\ nCalls = 0
    /\ nCall = [c \in Callers |-> IdleCall]

ReminderRest ==
    <<codecVars, reconVars, cascadeVars, migrateVars, sortVars, catalogVars,
      refreshVars, silentVars>>

\* where a call goes on after its cancelTaskReminder
AfterCancel(call) ==
    IF call.op = "schedule" THEN [call EXCEPT !.pc = "notify"] ELSE IdleCall

\* scheduleTaskReminder(taskId, ...) up to its call of cancelTaskReminder;
\* without the permission or with a date in the past the call ends here
BeginSchedule(c) ==
    /\ nCall[c].pc = "idle"
    /\ nCalls < MaxCalls
    /\ \E taskId \in ReminderIds, skipped \in BOOLEAN :
          nCall' = IF skipped THEN nCall
                   ELSE [nCall EXCEPT ![c] = [IdleCall EXCEPT !.pc = "cancelRead",
                                                              !.op = "schedule",
                                                              !.taskId = taskId]]
    /\ nCalls' = nCalls + 1
    /\ UNCHANGED <<nMap, nLive, nIssued>>
    /\ UNCHANGED ReminderRest

\* cancelTaskReminder(taskId) called by the hook
BeginCancel(c) ==
    /\ nCall[c].pc = "idle"
    /\ nCalls < MaxCalls
    /\ \E taskId \in ReminderIds :
          nCall' = [nCall EXCEPT ![c] = [IdleCall EXCEPT !.pc = "cancelRead",
                                                         !.op = "cancel",
                                                         !.taskId = taskId]]
    /\ nCalls' = nCalls + 1
    /\ UNCHANGED <<nMap, nLive, nIssued>>
    /\ UNCHANGED ReminderRest

\* cancelTaskReminder: await readReminderMap(); without an entry for the
\* task the function returns
ReadForCancel(c) ==
    /\ nCall[c].pc = "cancelRead"
    /\ nCall' = [nCall EXCEPT ![c] =
                    IF nMap[nCall[c].taskId] # NoNotification
                    THEN [nCall[c] EXCEPT !.pc = "cancelNotification", !.map = nMap]
                    ELSE AfterCancel(nCall[c])]
    /\ UNCHANGED <<nMap, nLive, nIssued, nCalls>>
    /\ UNCHANGED ReminderRest

\* cancelTaskReminder: await cancelScheduledNotificationAsync(notificationId),
\* then delete reminderMap[taskId] on the copy
CancelNotification(c) ==
    /\ nCall[c].pc = "cancelNotification"
    /\ nLive' = { n \in nLive : n.id # nCall[c].map[nCall[c].taskId] }
    /\ nCall' = [nCall EXCEPT ![c].pc = "cancelWrite",
                              ![c].map[nCall[c].taskId] = NoNotification]
    /\ UNCHANGED <<nMap, nIssued, nCalls>>
    /\ UNCHANGED ReminderRest

\* cancelTaskReminder: await writeReminderMap(reminderMap)
WriteAfterCancel(c) ==
    /\ nCall[c].pc = "cancelWrite"
    /\ nMap' = nCall[c].map
    /\ nCall' = [nCall EXCEPT ![c] = AfterCancel(nCall[c])]
    /\ UNCHANGED <<nLive, nIssued, nCalls>>
    /\ UNCHANGED ReminderRest

\* scheduleTaskReminder: await scheduleNotificationAsync(...)
ScheduleNotification(c) ==
    /\ nCall[c].pc = "notify"
    /\ nIssued' = nIssued + 1
    /\ nLive' = nLive \cup { [id |-> nIssued + 1, taskId |-> nCall[c].taskId] }
    /\ nCall' = [nCall EXCEPT ![c].pc = "recordRead", ![c].notificationId = nIssued + 1]
    /\ UNCHANGED <<nMap, nCalls>>
    /\ UNCHANGED ReminderRest

\* scheduleTaskReminder: await readReminderMap(), then
\* reminderMap[taskId] = notificationId on the copy
ReadForRecord(c) ==
    /\ nCall[c].pc = "recordRead"
    /\ nCall' = [nCall EXCEPT ![c].pc = "recordWrite",
                              ![c].map = [nMap EXCEPT ![nCall[c].taskId] =
                                                         nCall[c].notificationId]]
    /\ UNCHANGED <<nMap, nLive, nIssued, nCalls>>
    /\ UNCHANGED ReminderRest

\* scheduleTaskReminder: await writeReminderMap(reminderMap)
WriteRecord(c) ==
    /\ nCall[c].pc = "recordWrite"
    /\ nMap' = nCall[c].map
    /\ nCall' = [nCall EXCEPT ![c] = IdleCall]
    /\ UNCHANGED <<nLive, nIssued, nCalls>>
    /\ UNCHANGED ReminderRest

NextReminder ==
    \E c \in Callers :
        \/ BeginSchedule(c)
        \/ BeginCancel(c)
        \/ ReadForCancel(c)
        \/ CancelNotification(c)
        \/ WriteAfterCancel(c)
        \/ ScheduleNotification(c)
        \/ ReadForRecord(c)
        \/ WriteRecord(c)

SpecReminder == InitReminder /\ [][NextReminder]_vars

\* C28: once every call of scheduleTaskReminder and cancelTaskReminder has
\* returned, every notification that is scheduled and not cancelled is the
\* one the reminder map holds under its task id, so that a task has at most
\* one live notification
OneLiveReminder ==
    (\A c \in Callers : nCall[c].pc = "idle") =>
        \A n \in nLive : nMap[n.taskId] = n.id

\* ------------------------------------------------------------------------
\* Completion and reminders: createTask, updateTask, toggleComplete and
\* refresh on tasks with reminders, each call run to its end
\* ------------------------------------------------------------------------
MaxOps == 4

\* the minute of the day a reminder is set to, and the one it is moved to
ReminderAt == 9 * 60

ReminderMovedTo == 9 * 60 + 30

Edited == << <<"e", "d", "i", "t">> >>

\* what updateTask is given: another description, another reminder, no
\* reminder
Payloads == { "description", "reminder", "no reminder" }

InitSilent ==
    /\ IdleReminder
    /\ IdleCodec
    /\ IdleRecon
    /\ IdleCascade
    /\ IdleMigrate
    /\ IdleSort
    /\ IdleCatalog
    /\ IdleRefresh
    /\ qStore = <<>>
    /\ qReminders = NoReminders
    /\ qOps = 0

SilentRest ==
    <<codecVars, reconVars, cascadeVars, migrateVars, sortVars, catalogVars,
      refreshVars, reminderVars>>

\* createTask(payload): the API call, then the reminder of the new task
handleCreateTask ==
    /\ qOps < MaxOps
    /\ Len(qStore) < Cardinality(ReminderIds)
    /\ \E due \in {NullDate} \cup Days, reminder \in {NullTime, ReminderAt},
          past \in BOOLEAN :
          \E task \in { Task(Len(qStore) + 1, IF due = NullDate THEN "gym" ELSE "task",
                              Note, due, reminder, FALSE, Len(qStore) + 1) } :
              /\ qStore' = Append(qStore, task)
              /\ qReminders' = RemindersAfterSave(qReminders, task, past)
    /\ qOps' = qOps + 1
    /\ UNCHANGED SilentRest

\* updateTask(taskId, payload): the API call, then the reminder of the task
\* the API returned (the task is not a routine of the catalog, so that no
\* cascade follows)
handleUpdateTask ==
    /\ qOps < MaxOps
    /\ \E n \in 1..Len(qStore), payload \in Payloads, past \in BOOLEAN :
          \E task \in { CASE payload = "description" ->
                                [qStore[n] EXCEPT !.description = Edited]
                            [] payload = "reminder" ->
                                [qStore[n] EXCEPT !.reminder_at = ReminderMovedTo]
                            [] payload = "no reminder" ->
                                [qStore[n] EXCEPT !.reminder_at = NullTime] } :
              /\ qStore' = [qStore EXCEPT ![n] = task]
              /\ qReminders' = RemindersAfterSave(qReminders, task, past)
    /\ qOps' = qOps + 1
    /\ UNCHANGED SilentRest

\* toggleComplete(taskId, isCompleted)
handleToggleComplete ==
    /\ qOps < MaxOps
    /\ \E n \in 1..Len(qStore), isCompleted \in BOOLEAN, past \in BOOLEAN :
          \E task \in { [qStore[n] EXCEPT !.is_completed = isCompleted] } :
              /\ qStore' = [qStore EXCEPT ![n] = task]
              /\ qReminders' = RemindersAfterToggle(qReminders, task, past)
    /\ qOps' = qOps + 1
    /\ UNCHANGED SilentRest

\* refresh(): syncTaskReminders on the tasks fetched for the selected day
refresh ==
    /\ qOps < MaxOps
    /\ \E day \in Days, past \in BOOLEAN :
          qReminders' = RemindersAfterSync(qReminders, listTasks(qStore, day), 1, past)
    /\ qOps' = qOps + 1
    /\ UNCHANGED qStore
    /\ UNCHANGED SilentRest

NextSilent == handleCreateTask \/ handleUpdateTask \/ handleToggleComplete \/ refresh

SpecSilent == InitSilent /\ [][NextSilent]_vars

\* C30: after any sequence of createTask, updateTask, toggleComplete and
\* refresh, a dated task that is completed has no scheduled reminder
CompletedTasksSilent ==
    \A n \in 1..Len(qStore) :
        (qStore[n].due_at # NullDate /\ qStore[n].is_completed) =>
            ~\E notification \in qReminders.live : notification.taskId = qStore[n].id

====
